---- MODULE Spec2Model ----
(***************************************************************************)
(* Model of title_grabber_rs (src/src/lib.rs): TitleGrabber::write_csv_file *)
(* with its cache (processed_urls), the scoped thread pool, the result      *)
(* channel and the retry loop of TitleGrabber::get.                         *)
(*                                                                          *)
(* Text is modelled as a sequence of symbols: "S" stands for a scheme       *)
(* prefix ("http://" or "https://"), " " for a whitespace character and any *)
(* other symbol for one non-whitespace character.  Option<T> is a sequence  *)
(* of length 0 (None) or 1 (Some).                                          *)
(***************************************************************************)
EXTENDS Naturals, Sequences, FiniteSets, TLC

VARIABLES nfiles, max_threads, max_retries, outFile, run, pc, result,
          processed_urls, prior, fi, reading, missing, nread, nurl, scanned,
          lines, jobs, work_queue, chan, ndrain, nrecv, gs, scr, ws, disk_full,
          pool

vars == <<nfiles, max_threads, max_retries, outFile, run, pc, result,
          processed_urls, prior, fi, reading, missing, nread, nurl, scanned,
          lines, jobs, work_queue, chan, ndrain, nrecv, gs, scr, ws, disk_full,
          pool>>

----------------------------------------------------------------------------
(* Bounds of the model *)

MaxLines == 2
MaxFiles == 2
MaxThreads == 2
MaxRetriesCfg == 3
MaxLinks == 2
MaxHtmlLen == 4

(* Program constants *)

MAX_RETRIES == 3

----------------------------------------------------------------------------
(* Option<T> *)

None == <<>>
Some(x) == <<x>>
is_some(o) == Len(o) = 1
unwrap(o) == o[1]

----------------------------------------------------------------------------
(* URL_RE = https?://\S+ and Regex::find: the leftmost match, greedy *)

WsSyms == {" ", "\n", "\t"}
IsWs(c) == c \in WsSyms

RECURSIVE MatchEnd(_, _)
MatchEnd(line, j) ==
    IF j < Len(line) /\ ~IsWs(line[j + 1]) THEN MatchEnd(line, j + 1) ELSE j

RECURSIVE FindFrom(_, _)
FindFrom(line, i) ==
    IF i > Len(line) THEN None
    ELSE IF line[i] = "S" /\ i < Len(line) /\ ~IsWs(line[i + 1])
         THEN Some(SubSeq(line, i, MatchEnd(line, i + 1)))
         ELSE FindFrom(line, i + 1)

RECURSIVE FindLooseFrom(_, _)
FindLooseFrom(line, i) ==
    IF i > Len(line) THEN None
    ELSE IF line[i] = "S" THEN Some(SubSeq(line, i, MatchEnd(line, i)))
    ELSE FindLooseFrom(line, i + 1)

(* the pattern https?://\S* in place of https?://\S+ *)
URL_RE_find_loose(line) == FindLooseFrom(line, 1)

(* the match that starts at the last scheme prefix of the line *)
RECURSIVE FindLastFrom(_, _)
FindLastFrom(line, i) ==
    IF i < 1 THEN None
    ELSE IF line[i] = "S" /\ i < Len(line) /\ ~IsWs(line[i + 1])
         THEN Some(SubSeq(line, i, MatchEnd(line, i + 1)))
         ELSE FindLastFrom(line, i - 1)

URL_RE_find_last(line) == FindLastFrom(line, Len(line))

URL_RE_find(line) == FindFrom(line, 1)

(* Regex::is_match: somewhere a scheme is followed by a character that is   *)
(* not whitespace                                                           *)
HasUrl(line) ==
    \E i \in 1..Len(line) : line[i] = "S" /\ i < Len(line) /\ line[i + 1] \notin WsSyms

----------------------------------------------------------------------------
(* Input lines and the locations a request can end at *)

LineNoUrl == <<"x", " ", "S", " ", "y">>
LineA == <<"S", "a">>
LineB == <<"x", " ", "S", "b", " ", "S", "a">>
LineSet == {LineNoUrl, LineA, LineB}

Redirected == <<"S", "r">>

UrlA == <<"S", "a">>
UrlB == <<"S", "b">>
UrlC == <<"S", "c">>
Urls == {UrlA, UrlB, UrlC}

----------------------------------------------------------------------------
(* fix_whitespace: trim, every "\n" becomes " ", every run of two or more   *)
(* whitespace characters becomes one " "                                    *)

RECURSIVE TrimStart(_)
TrimStart(s) == IF s # <<>> /\ IsWs(Head(s)) THEN TrimStart(Tail(s)) ELSE s

RECURSIVE TrimEnd(_)
TrimEnd(s) ==
    IF s # <<>> /\ IsWs(s[Len(s)]) THEN TrimEnd(SubSeq(s, 1, Len(s) - 1)) ELSE s

trim(s) == TrimEnd(TrimStart(s))

NEW_LINE_RE_replace_all(s) == [i \in 1..Len(s) |-> IF s[i] = "\n" THEN " " ELSE s[i]]

RECURSIVE WsRunEnd(_, _)
WsRunEnd(s, j) == IF j < Len(s) /\ IsWs(s[j + 1]) THEN WsRunEnd(s, j + 1) ELSE j

RECURSIVE CollapseFrom(_, _)
CollapseFrom(s, i) ==
    IF i > Len(s) THEN <<>>
    ELSE IF IsWs(s[i]) /\ WsRunEnd(s, i) > i
         THEN <<" ">> \o CollapseFrom(s, WsRunEnd(s, i) + 1)
         ELSE <<s[i]>> \o CollapseFrom(s, i + 1)

WHITESPACE_RE_replace_all(s) == CollapseFrom(s, 1)

(* fix_whitespace without the trim *)
fix_whitespace_untrimmed(html) ==
    WHITESPACE_RE_replace_all(NEW_LINE_RE_replace_all(html))

fix_whitespace(html) == WHITESPACE_RE_replace_all(NEW_LINE_RE_replace_all(trim(html)))

----------------------------------------------------------------------------
(* CsvRow, and its text form in the output file: an absent title and an     *)
(* empty title are both written as an empty field, and an empty field is    *)
(* read back as an absent title                                             *)

CsvRow(url, end_url, page_title, article_title) ==
    [url |-> url, end_url |-> end_url,
     page_title |-> page_title, article_title |-> article_title]

SerField(o) == IF is_some(o) THEN unwrap(o) ELSE <<>>
DeField(f) == IF f = <<>> THEN None ELSE Some(f)

Serialize(row) ==
    [url |-> row.url, end_url |-> row.end_url,
     page_title |-> SerField(row.page_title),
     article_title |-> SerField(row.article_title)]

Deserialize(rec) ==
    CsvRow(rec.url, rec.end_url, DeField(rec.page_title), DeField(rec.article_title))

NoFile == [exists |-> FALSE, header |-> FALSE, rows |-> <<>>]
EmptyFile == [exists |-> TRUE, header |-> FALSE, rows |-> <<>>]

(* csv::Writer::serialize, as far as the file goes: the header goes out     *)
(* with the first row; src is a history tag (cache or fetch), not part of   *)
(* the file's text. The writer keeps the record in its buffer and writes    *)
(* the buffer out when it is full and when the writer is dropped; on a      *)
(* device that takes no data nothing comes to the file, whether serialize   *)
(* returned the error of the write or left the record in the buffer for     *)
(* the drop to lose.                                                        *)
WriterSerialize(file, row, src) ==
    IF disk_full THEN file
    ELSE [file EXCEPT !.header = TRUE,
                      !.rows = Append(@, [rec |-> Serialize(row), src |-> src])]

----------------------------------------------------------------------------
(* processed_urls: the cache read from the prior output file *)

MapInsert(m, k, v) == [x \in (DOMAIN m) \cup {k} |-> IF x = k THEN v ELSE m[x]]

UrlData(r) ==
    [end_url |-> Some(r.end_url), page_title |-> r.page_title,
     article_title |-> r.article_title]

HasTitle(r) == is_some(r.page_title) \/ is_some(r.article_title)

RECURSIVE InsertRows(_, _)
InsertRows(res, rows) ==
    IF rows = <<>> THEN res
    ELSE LET r == Deserialize(Head(rows).rec)
         IN  InsertRows(IF HasTitle(r) THEN MapInsert(res, r.url, UrlData(r)) ELSE res,
                        Tail(rows))

EmptyMap == [x \in {} |-> None]

ProcessedUrls(file) == IF file.exists THEN InsertRows(EmptyMap, file.rows) ELSE EmptyMap

----------------------------------------------------------------------------
(* TitleGrabber::get: the retry loop around Client::get(url).send().        *)
(* send() answers Ok(response) for every HTTP status, and Err for a         *)
(* transport error, a timeout or a redirect-policy error; an error that     *)
(* carries a status comes only from Response::error_for_status.             *)

SendErrs == {"err_http", "err_timeout", "err_redirect"}
SendOks == {"ok_2xx", "ok_4xx", "ok_5xx"}
SendResults == SendErrs \cup SendOks

is_err(res) == res \notin SendOks
is_http(err) == err = "err_http"
is_timeout(err) == err = "err_timeout"
is_server_error(err) == err = "err_status_5xx"

(* log: what the call did on the network and the clock, in order (history) *)
GetIdle == [pc |-> "idle", url |-> <<>>, retries |-> 0, res |-> "none",
            nreq |-> 0, slept |-> <<>>, log |-> <<>>]

(* let mut retries = 0; let mut res = http_client.get(url).send(); *)
GetBegin(url, first) ==
    [pc |-> "loop", url |-> url, retries |-> 0, res |-> first, nreq |-> 1,
     slept |-> <<>>, log |-> <<[ev |-> "send", secs |-> 0]>>]

(* a test that lets the request be issued once more: retries <= max_retries *)
WillRetryOnceMore(err, retries, maxr) ==
    (is_http(err) \/ is_timeout(err) \/ is_server_error(err)) /\ retries <= maxr

(* retries is the counter after its increment *)
WillRetry(err, retries, maxr) ==
    (is_http(err) \/ is_timeout(err) \/ is_server_error(err)) /\ retries < maxr

(* the while condition and the head of the loop body: the two breaks, the   *)
(* increment of retries and the test will_retry; pc "sleep" is the call in  *)
(* front of thread::sleep                                                   *)
GetTest(g, maxr) ==
    IF ~is_err(g.res) THEN [g EXCEPT !.pc = "done"]
    ELSE IF g.retries >= maxr THEN [g EXCEPT !.pc = "done"]
    ELSE IF WillRetry(g.res, g.retries + 1, maxr)
         THEN [g EXCEPT !.retries = g.retries + 1, !.pc = "sleep"]
         ELSE [g EXCEPT !.retries = g.retries + 1, !.pc = "done"]

(* a loop body without the sleep: the request follows the test at once *)
GetSleepLeftOut(g) == [g EXCEPT !.pc = "send"]

(* thread::sleep(Duration::from_secs(retries)); pc "send" is the call in    *)
(* front of the request that follows                                        *)
GetSleep(g) ==
    [g EXCEPT !.slept = Append(g.slept, g.retries),
              !.log = Append(g.log, [ev |-> "sleep", secs |-> g.retries]),
              !.pc = "send"]

(* res = http_client.get(url).send(); next is what send() answers; the loop *)
(* goes back to its condition                                               *)
GetSend(g, next) ==
    [g EXCEPT !.res = next, !.nreq = g.nreq + 1,
              !.log = Append(g.log, [ev |-> "send", secs |-> 0]),
              !.pc = "loop"]

(* one test of the while condition and, when it holds, one pass of the body; *)
(* next is what send() answers if the body issues the request again          *)
GetStep(g, maxr, next) ==
    LET t == GetTest(g, maxr)
    IN  IF t.pc = "sleep" THEN GetSend(GetSleep(t), next) ELSE t

(* match res { Ok(resp) => Some(resp), Err(err) => None } *)
GetResult(g) == IF is_err(g.res) THEN None ELSE Some(g.res)

At(outs, i) == IF i <= Len(outs) THEN outs[i] ELSE outs[Len(outs)]

RECURSIVE GetRun(_, _, _)
GetRun(g, maxr, outs) ==
    IF g.pc = "done" THEN g ELSE GetRun(GetStep(g, maxr, At(outs, g.nreq + 1)), maxr, outs)

(* the whole call, given what send() answers to the 1st, 2nd, ... request *)
Get(url, maxr, outs) == GetRun(GetBegin(url, outs[1]), maxr, outs)

(* k retryable failures of kind e, then final for every later request *)
NetScript(k, e, final, n) == [i \in 1..n |-> IF i <= k THEN e ELSE final]

----------------------------------------------------------------------------
(* TitleGrabber::scrape_url. A page is what the response gives: final, the   *)
(* location it came from; title, art_h1 and h1, the text of the first       *)
(* element of each selector; links, the href values of the anchors the two  *)
(* permalink selectors find, in the order they are collected.               *)

PagePlain(url) ==
    [final |-> url, title |-> None, art_h1 |-> None, h1 |-> None, links |-> <<>>]
PageTitled(url) ==
    [final |-> url, title |-> Some(<<" ", "T", "\n">>), art_h1 |-> None,
     h1 |-> Some(<<"H">>), links |-> <<>>]
PageMoved(url) ==
    [final |-> Redirected, title |-> Some(<<" ">>), art_h1 |-> Some(<<"A">>),
     h1 |-> Some(<<"H">>), links |-> <<>>]

Pages(url) == {PagePlain(url), PageTitled(url), PageMoved(url)}

PageTitle(page) ==
    IF is_some(page.title) THEN Some(fix_whitespace(unwrap(page.title))) ELSE None

ArticleTitle(page) ==
    IF is_some(page.art_h1) THEN Some(fix_whitespace(unwrap(page.art_h1)))
    ELSE IF is_some(page.h1) THEN Some(fix_whitespace(unwrap(page.h1)))
    ELSE None

----------------------------------------------------------------------------
(* URL strings of the permalink code. A string is a sequence of tokens:     *)
(*   "S" = "https://"; hosts "tw" = "twitter.com", "tco" = "t.co",          *)
(*   "ex" = "example.com"; "pic" = "pic.twitter.com" written without a      *)
(*   scheme; "/"; path segments "u", "status", "photo", "hashtag", "x",     *)
(*   "doc", "a", "b"; "1" = the digit 1; "?s" = the query "?s=20";          *)
(*   "," = CSV_FIELD_SEP; "https" = the scheme name as the parser keeps it  *)
(*   when it reads "https://" inside a host; "0.0.0." = the front of an     *)
(*   IPv4 host below 256, and one token for the dotted text of each larger  *)
(*   IPv4 host the parser can write ("0.0.4.87" for 1111, ...).             *)
(* A host is the sequence of the tokens between "//" and the next "/", "?"  *)
(* or ":". The tokens "https", "0.0.0." and the dotted IPv4 texts occur in  *)
(* a string only where the parser wrote them; strings with text in front of *)
(* the scheme prefix are outside the model.                                 *)
(* No token text is a prefix of another but "https", which the parser       *)
(* writes only in front of "/", so comparing two strings token by token in  *)
(* the byte order of the token texts is comparing their bytes.              *)

TWITTER_HOST == <<"tw">>
CSV_FIELD_SEP == ","
DigitToks == {"1"}

(* the token texts in ascending byte order *)
TokOrder == <<"/", "0.0.0.", "0.0.4.87", "0.0.43.103", "0.1.178.7", "0.16.244.71",
              "0.169.138.199", "1", "6.159.107.199", "66.58.53.199", "?s", "a", "b",
              "doc", "ex", "hashtag", "https", "S", "photo", "pic", "status", "tco",
              "tw", "u", "x">>

Rank(t) == CHOOSE i \in DOMAIN TokOrder : TokOrder[i] = t

(* a < b for Strings (Ord for str: bytewise, a proper prefix first) *)
RECURSIVE StrLess(_, _)
StrLess(a, b) ==
    IF b = <<>> THEN FALSE
    ELSE IF a = <<>> THEN TRUE
    ELSE IF Head(a) = Head(b) THEN StrLess(Tail(a), Tail(b))
    ELSE Rank(Head(a)) < Rank(Head(b))

RECURSIVE SortInsert(_, _)
SortInsert(sorted, x) ==
    IF sorted = <<>> THEN <<x>>
    ELSE IF StrLess(x, Head(sorted)) THEN <<x>> \o sorted
    ELSE <<Head(sorted)>> \o SortInsert(Tail(sorted), x)

(* Vec::sort_unstable on strings: ascending, equal elements all kept *)
RECURSIVE SortUnstable(_)
SortUnstable(v) ==
    IF v = <<>> THEN <<>> ELSE SortInsert(SortUnstable(Tail(v)), Head(v))

(* Vec::dedup_by_key(|url| *url): of a run of equal neighbours the first stays *)
RECURSIVE DedupByKey(_)
DedupByKey(v) ==
    IF Len(v) <= 1 THEN v
    ELSE IF v[1] = v[2] THEN DedupByKey(Tail(v))
    ELSE <<v[1]>> \o DedupByKey(Tail(v))

(* itertools::join(iter, sep) *)
RECURSIVE Join_(_, _)
Join_(v, sep) ==
    IF v = <<>> THEN <<>>
    ELSE IF Len(v) = 1 THEN v[1]
    ELSE v[1] \o <<sep>> \o Join_(Tail(v), sep)

(* index of the first token of str at or after i that is in toks, else Len + 1 *)
RECURSIVE FirstIn(_, _, _)
FirstIn(str, i, toks) ==
    IF i > Len(str) THEN Len(str) + 1
    ELSE IF str[i] \in toks THEN i
    ELSE FirstIn(str, i + 1, toks)

(* a parsed Url: host, path (from the first "/" to the query) and the rest; *)
(* the path of an https URL is never empty                                  *)
MkUrl(host, tail) ==
    LET q == FirstIn(tail, 1, {"?s"})
        path == SubSeq(tail, 1, q - 1)
    IN  [host |-> host,
         path |-> IF path = <<>> THEN <<"/">> ELSE path,
         rest |-> SubSeq(tail, q, Len(tail))]

(* index of the first token of str at or after i that is not "/" *)
RECURSIVE SkipSlashes(_, _)
SkipSlashes(str, i) ==
    IF i <= Len(str) /\ str[i] = "/" THEN SkipSlashes(str, i + 1) ELSE i

(* the number a run of digits is written for, in base ten *)
RECURSIVE DecimalValue(_)
DecimalValue(toks) ==
    IF toks = <<>> THEN 0
    ELSE 10 * DecimalValue(SubSeq(toks, 1, Len(toks) - 1)) + 1

(* the dotted text of the IPv4 address v, one byte of v per part *)
Ipv4Text(v) ==
    ToString(v \div 16777216) \o "." \o ToString((v \div 65536) % 256) \o "."
        \o ToString((v \div 256) % 256) \o "." \o ToString(v % 256)

(* the host as the parser keeps it: a host that is a number is the IPv4     *)
(* address of that number, spread over its four bytes, and no host at all   *)
(* when the number does not fit 32 bits (ten digits 1 fit, eleven do not)   *)
HostOf(toks) ==
    IF \A k \in DOMAIN toks : toks[k] \in DigitToks
    THEN IF Len(toks) > 10 THEN None
         ELSE IF DecimalValue(toks) < 256 THEN Some(<<"0.0.0.">> \o toks)
         ELSE Some(<<Ipv4Text(DecimalValue(toks))>>)
    ELSE Some(toks)

(* what follows the scheme and "//": the host goes to the next "/", "?" or  *)
(* ":" and may not be empty. The ":" of a scheme prefix read here ends the  *)
(* host with an empty port, and its "//" opens the path                     *)
ParseAuthority(str) ==
    LET e == FirstIn(str, 1, {"/", "?s", "S"})
        colon == e <= Len(str) /\ str[e] = "S"
        name == SubSeq(str, 1, e - 1) \o (IF colon THEN <<"https">> ELSE <<>>)
        tail == IF colon THEN <<"/", "/">> \o SubSeq(str, e + 1, Len(str))
                ELSE SubSeq(str, e, Len(str))
        host == HostOf(name)
    IN  IF name = <<>> \/ ~is_some(host) THEN None
        ELSE Some(MkUrl(unwrap(host), tail))

(* Url::parse(&url).ok(): an absolute URL has a scheme and a host; slashes  *)
(* between the scheme prefix and the host are skipped                       *)
UrlParse(str) ==
    IF str # <<>> /\ str[1] = "S"
    THEN ParseAuthority(SubSeq(str, SkipSlashes(str, 2), Len(str)))
    ELSE None

(* TWITTER_URL_PREFIX.join(&url).ok() for a string that starts with "/": a  *)
(* string that starts with "//" is scheme-relative and brings its own host, *)
(* which starts right after the two slashes; any other is a path on the     *)
(* host of the base                                                         *)
UrlJoin(host, str) ==
    IF Len(str) >= 2 /\ str[2] = "/" THEN ParseAuthority(SubSeq(str, 3, Len(str)))
    ELSE Some(MkUrl(host, str))

(* Url::as_str, Url::into_string *)
as_str(u) == <<"S">> \o u.host \o u.path \o u.rest

starts_with_slash(str) == str # <<>> /\ str[1] = "/"

(* url.path().chars().filter(|&c| c == '/').count(); the text of "S" has    *)
(* two                                                                      *)
fwd_slash_cnt(u) ==
    Cardinality({i \in DOMAIN u.path : u.path[i] = "/"})
        + 2 * Cardinality({i \in DOMAIN u.path : u.path[i] = "S"})

(* the length of the run of digits that str ends in *)
RECURSIVE DigitsAtEnd(_)
DigitsAtEnd(str) ==
    IF str = <<>> \/ str[Len(str)] \notin DigitToks THEN 0
    ELSE 1 + DigitsAtEnd(SubSeq(str, 1, Len(str) - 1))

(* TWITTER_STATUS_RE.is_match(str): /status/\d+\z; the "/" in front of     *)
(* "status" may be the last one of a scheme prefix                          *)
TWITTER_STATUS_RE_is_match(str) ==
    LET d == DigitsAtEnd(str)
        n == Len(str) - d
    IN  /\ d >= 1
        /\ n >= 3
        /\ str[n - 2] \in {"/", "S"}
        /\ SubSeq(str, n - 1, n) = <<"status", "/">>

(* the href values the two selectors can find in a document *)
HrefEmpty == <<>>
HrefMention == <<"/", "u">>
HrefStatus == <<"/", "u", "/", "status", "/", "1">>
HrefTag == <<"/", "hashtag", "/", "x">>
HrefShortA == <<"S", "tco", "/", "a">>
HrefShortB == <<"S", "tco", "/", "b">>
HrefPic == <<"pic", "/", "x">>
HrefSchemeRel == <<"/", "/", "ex", "/", "doc">>
HrefNumHost == <<"/", "/", "1", "1", "1", "1">>
HrefNested == <<"S", "tw", "/", "S", "status", "/", "1">>
Hrefs == {HrefEmpty, HrefMention, HrefStatus, HrefTag, HrefShortA, HrefShortB, HrefPic,
          HrefSchemeRel, HrefNumHost, HrefNested}

(* the locations a request can end at after its redirects (resp.url()) *)
LocDoc == <<"S", "ex", "/", "doc">>
LocStatus == <<"S", "tw", "/", "u", "/", "status", "/", "1">>
LocPhoto == <<"S", "tw", "/", "u", "/", "status", "/", "1", "/", "photo", "/", "1">>
LocStatusQuery == <<"S", "tw", "/", "u", "/", "status", "/", "1", "?s">>
LocProfile == <<"S", "tw", "/", "u">>
Locs == {LocDoc, LocStatus, LocPhoto, LocStatusQuery, LocProfile}

(* what a secondary fetch can come to: every request fails, or the answer   *)
(* (of any status) arrives from location loc                                *)
SecResults ==
    {[send |-> "err_timeout", loc |-> <<>>]}
        \cup {[send |-> "ok_2xx", loc |-> l] : l \in Locs}

NoResolve == [h \in {} |-> [send |-> "err_timeout", loc |-> <<>>]]

NonEmpty(url) == url # <<>>

(* tweet_urls after retain, sort_unstable and dedup_by_key *)
RawCandidates(page) == DedupByKey(SortUnstable(SelectSeq(page.links, NonEmpty)))

(* self.get(url, &http_client) of the first filter_map; the location of the *)
(* response when there is one                                               *)
SecondaryGet(href, resolve, maxr) ==
    LET r == resolve[href]
        resp == GetResult(Get(href, maxr, NetScript(0, r.send, r.send, maxr + 1)))
    IN  IF is_some(resp) THEN Some(unwrap(UrlParse(r.loc))) ELSE None

(* first filter_map: a URL-like candidate is fetched and replaced by the    *)
(* location of the response, or dropped                                     *)
ResolveCandidate(href, resolve, maxr) ==
    IF HasUrl(href)
    THEN LET resp == SecondaryGet(href, resolve, maxr)
         IN  IF is_some(resp)
             THEN IF unwrap(resp).host = TWITTER_HOST
                     /\ ~TWITTER_STATUS_RE_is_match(as_str(unwrap(resp)))
                  THEN None
                  ELSE Some(as_str(unwrap(resp)))
             ELSE Some(href)
    ELSE Some(href)

(* second filter_map: relative to the permalink host, or parsed as it is *)
ParseCandidate(str) ==
    IF starts_with_slash(str) THEN UrlJoin(TWITTER_HOST, str) ELSE UrlParse(str)

(* a third filter_map that does not count the slashes of the path: every    *)
(* permalink-host URL stays only if it ends like a status URL               *)
FilterCandidateAnyDepth(u) ==
    IF u.host = TWITTER_HOST /\ ~TWITTER_STATUS_RE_is_match(as_str(u))
    THEN None
    ELSE Some(as_str(u))

(* a third filter_map that lets every parsed URL through *)
FilterCandidateKeepAll(u) == Some(as_str(u))

(* third filter_map: a permalink-host URL with more than one slash in its   *)
(* path stays only if it ends like a status URL                             *)
FilterCandidate(u) ==
    IF u.host = TWITTER_HOST /\ fwd_slash_cnt(u) > 1
       /\ ~TWITTER_STATUS_RE_is_match(as_str(u))
    THEN None
    ELSE Some(as_str(u))

(* the three filter_maps on one candidate *)
Candidate(href, resolve, maxr) ==
    LET a == ResolveCandidate(href, resolve, maxr)
        b == IF is_some(a) THEN ParseCandidate(unwrap(a)) ELSE None
    IN  IF is_some(b) THEN FilterCandidate(unwrap(b)) ELSE None

RECURSIVE FilterMap(_, _, _)
FilterMap(hrefs, resolve, maxr) ==
    IF hrefs = <<>> THEN <<>>
    ELSE LET c == Candidate(Head(hrefs), resolve, maxr)
         IN  (IF is_some(c) THEN <<unwrap(c)>> ELSE <<>>)
                \o FilterMap(Tail(hrefs), resolve, maxr)

(* tweet_urls after collect() and the second sort_unstable *)
TweetUrls(page, resolve, maxr) ==
    SortUnstable(FilterMap(RawCandidates(page), resolve, maxr))

(* the requests the first filter_map issues, in order *)
SecondaryFetches(page) == SelectSeq(RawCandidates(page), HasUrl)

(* end_url taken from the joined list even when the list is empty *)
EndUrlAlwaysJoined(page, resolve, maxr) ==
    Join_(TweetUrls(page, resolve, maxr), CSV_FIELD_SEP)

(* end_url of the row *)
EndUrl(page, resolve, maxr) ==
    LET tweet_urls == TweetUrls(page, resolve, maxr)
    IN  IF tweet_urls # <<>> THEN Join_(tweet_urls, CSV_FIELD_SEP) ELSE page.final

(* scrape_url without error_for_status: a response of any status is read *)
ScrapeUrlAnyStatus(url, resp, body_ok, page, resolve, maxr) ==
    IF is_some(resp) /\ body_ok
    THEN Some(CsvRow(url, EndUrl(page, resolve, maxr), PageTitle(page),
                     ArticleTitle(page)))
    ELSE None

(* the value scrape_url sends on tx: resp is what get returned, body_ok      *)
(* whether resp.text() succeeded, page the document and the location of the  *)
(* response, resolve what the secondary fetches come to                      *)
ScrapeUrl(url, resp, body_ok, page, resolve, maxr) ==
    IF is_some(resp) /\ unwrap(resp) = "ok_2xx" /\ body_ok
    THEN Some(CsvRow(url, EndUrl(page, resolve, maxr), PageTitle(page),
                     ArticleTitle(page)))
    ELSE None

----------------------------------------------------------------------------
(* State.                                                                    *)
(*   nfiles          the number of input paths (self.files.len())            *)
(*   outFile         the file at output_path                                 *)
(*   processed_urls  the cache; prior: the file it was read from (history)   *)
(*   fi, reading     the input path the scan is at, and whether it is open   *)
(*   missing         the paths File::open failed on (history)                *)
(*   nread, nurl     lines read, and lines read that URL_RE matches (history) *)
(*   scanned         the URLs matched so far, in the order read, with hit =  *)
(*                   served from cache (history)                             *)
(*   disk_full       the device of the output file takes no data: the file   *)
(*                   can be created, every write to it fails                 *)
(*   lines           the lines read so far, each with the index of its path, *)
(*                   in the order read (history, kept in SpecScan)           *)
(*   jobs            closures given to scoped.execute, in submission order;  *)
(*                   fetch: how the closure's fetch went (history)           *)
(*   work_queue      the AtomicUsize counter; chan: the mpsc channel         *)
(*   ndrain, nrecv   bound and position of the drain loop                    *)
(*   run             1, 2: consecutive calls of write_csv_file (SpecRerun)   *)
(*   gs              one call of get, stepped request by request (SpecGet)   *)
(*   pool            the calls of get of the closures that run on the pool's *)
(*                   threads, one per closure, stepped statement by          *)
(*                   statement, and the sleeps taken with the closure that   *)
(*                   took each (SpecBackoff)                                 *)
(*   scr             one call of scrape_url with what it was given and what   *)
(*                   it did (SpecScrape)                                      *)
(*   ws              a string and the calls of fix_whitespace on it (SpecFix) *)
(* The content of the input files is read line by line during the scan; the  *)
(* model draws each line when it is read.                                    *)

FileOf(rows) == [exists |-> TRUE, header |-> TRUE, rows |-> rows]

FetchedRow(url, page) ==
    [rec |-> Serialize(CsvRow(url, page.final, PageTitle(page), ArticleTitle(page))),
     src |-> "fetch"]

(* output files of earlier runs: none; one with a titled row for each URL;   *)
(* one with a row without titles for the first URL                           *)
PriorFiles ==
    {NoFile,
     FileOf(<<FetchedRow(UrlA, PageTitled(UrlA)), FetchedRow(UrlB, PageMoved(UrlB))>>),
     FileOf(<<FetchedRow(UrlA, PagePlain(UrlA)), FetchedRow(UrlB, PageTitled(UrlB))>>)}


ScrapeIdle ==
    [pc |-> "idle", outs |-> <<>>, body_ok |-> FALSE, page |-> PagePlain(<<>>),
     resolve |-> NoResolve, fetched |-> <<>>, ret |-> None]

FixIdle == [n |-> 0, html |-> <<>>, prev |-> <<>>, out |-> <<>>]

RunReset ==
    /\ processed_urls' = EmptyMap
    /\ prior' = NoFile
    /\ fi' = 0
    /\ reading' = FALSE
    /\ missing' = {}
    /\ nread' = 0
    /\ nurl' = 0
    /\ scanned' = <<>>
    /\ lines' = <<>>
    /\ jobs' = <<>>
    /\ work_queue' = 0
    /\ chan' = <<>>
    /\ ndrain' = 0
    /\ nrecv' = 0

RunStart ==
    /\ run = 1
    /\ pc = "idle"
    /\ result = "none"
    /\ processed_urls = EmptyMap
    /\ prior = NoFile
    /\ fi = 0
    /\ reading = FALSE
    /\ missing = {}
    /\ nread = 0
    /\ nurl = 0
    /\ scanned = <<>>
    /\ lines = <<>>
    /\ jobs = <<>>
    /\ work_queue = 0
    /\ chan = <<>>
    /\ ndrain = 0
    /\ nrecv = 0
    /\ gs = GetIdle
    /\ scr = ScrapeIdle
    /\ ws = FixIdle
    /\ pool = [calls |-> <<>>, naps |-> {}]

(* a device that takes no data is tried with one pool thread: every write   *)
(* is made by the calling thread, in the scan or after the pool was joined  *)
Init ==
    /\ nfiles \in 1..MaxFiles
    /\ max_threads \in 1..MaxThreads
    /\ max_retries = MAX_RETRIES
    /\ outFile \in PriorFiles
    /\ disk_full \in {b \in BOOLEAN : b => max_threads = 1}
    /\ RunStart

cfg == <<nfiles, max_threads, max_retries, run, gs, scr, ws, disk_full, pool>>

(* the writer opened before the cache is read: processed_urls() reads the   *)
(* file that csv::Writer::from_path has just truncated                      *)
WriteCsvFileBeginTruncateFirst ==
    /\ pc = "idle"
    /\ prior' = outFile
    /\ \E writable \in BOOLEAN :
          IF writable
          THEN /\ outFile' = EmptyFile
               /\ processed_urls' = ProcessedUrls(EmptyFile)
               /\ pc' = "scan"
               /\ fi' = 1
               /\ result' = result
          ELSE /\ outFile' = outFile
               /\ processed_urls' = processed_urls
               /\ pc' = "done"
               /\ fi' = fi
               /\ result' = "Err"
    /\ UNCHANGED <<cfg, reading, missing, nread, nurl, scanned, lines, jobs, work_queue,
                   chan, ndrain, nrecv>>

(* a writer opened for appending: the prior rows stay in the file *)
WriteCsvFileBeginAppend ==
    /\ pc = "idle"
    /\ processed_urls' = ProcessedUrls(outFile)
    /\ prior' = outFile
    /\ \E writable \in BOOLEAN :
          IF writable
          THEN /\ outFile' = [outFile EXCEPT !.exists = TRUE]
               /\ pc' = "scan"
               /\ fi' = 1
               /\ result' = result
          ELSE /\ outFile' = outFile
               /\ pc' = "done"
               /\ fi' = fi
               /\ result' = "Err"
    /\ UNCHANGED <<cfg, reading, missing, nread, nurl, scanned, lines, jobs, work_queue,
                   chan, ndrain, nrecv>>

(* processed_urls(), then csv::Writer::from_path(output_path)?, which        *)
(* creates or truncates the file, or fails and returns the error             *)
WriteCsvFileBegin ==
    /\ pc = "idle"
    /\ processed_urls' = ProcessedUrls(outFile)
    /\ prior' = outFile
    /\ \E writable \in BOOLEAN :
          IF writable
          THEN /\ outFile' = EmptyFile
               /\ pc' = "scan"
               /\ fi' = 1
               /\ result' = result
          ELSE /\ outFile' = outFile
               /\ pc' = "done"
               /\ fi' = fi
               /\ result' = "Err"
    /\ UNCHANGED <<cfg, reading, missing, nread, nurl, scanned, lines, jobs, work_queue,
                   chan, ndrain, nrecv>>

(* where the scan goes after path f: the next path, or the end of the scope  *)
AfterFile(f) ==
    /\ fi' = f + 1
    /\ reading' = FALSE
    /\ pc' = IF f + 1 > nfiles THEN "join" ELSE "scan"

(* File::open(path)? in place of File::open(path).ok(): the error of an     *)
(* input file that cannot be opened is returned                             *)
OpenFileOrFail ==
    /\ pc = "scan"
    /\ ~reading
    /\ \E opened \in BOOLEAN :
          IF opened
          THEN /\ reading' = TRUE
               /\ UNCHANGED <<fi, pc, missing, result>>
          ELSE /\ missing' = missing \cup {fi}
               /\ pc' = "done"
               /\ result' = "Err"
               /\ UNCHANGED <<fi, reading>>
    /\ UNCHANGED <<cfg, outFile, processed_urls, prior, nread, nurl, scanned, lines,
                   jobs, work_queue, chan, ndrain, nrecv>>

(* File::open(path).ok(): a file that cannot be opened is skipped *)
OpenFile ==
    /\ pc = "scan"
    /\ ~reading
    /\ \E opened \in BOOLEAN :
          IF opened
          THEN /\ reading' = TRUE
               /\ UNCHANGED <<fi, pc, missing>>
          ELSE /\ missing' = missing \cup {fi}
               /\ AfterFile(fi)
    /\ UNCHANGED <<cfg, outFile, result, processed_urls, prior, nread, nurl,
                   scanned, lines, jobs, work_queue, chan, ndrain, nrecv>>

(* the row written for a cache hit *)
CachedRow(url, row) ==
    CsvRow(url, unwrap(row.end_url), row.page_title, row.article_title)

CacheGet(cache, url) == IF url \in DOMAIN cache THEN Some(cache[url]) ELSE None

(* the rows of a file with one more row, kept in the order of their URLs,   *)
(* one row for a URL                                                        *)
RECURSIVE InsertByUrl(_, _)
InsertByUrl(rows, r) ==
    IF rows = <<>> THEN <<r>>
    ELSE IF Head(rows).rec.url = r.rec.url THEN rows
    ELSE IF StrLess(r.rec.url, Head(rows).rec.url) THEN <<r>> \o rows
    ELSE <<Head(rows)>> \o InsertByUrl(Tail(rows), r)

(* a scan that keeps the rows of its cache hits in a map ordered by URL and *)
(* writes the file from the map: the cached rows come out in the order of   *)
(* their URLs, not of the lines                                             *)
ScanLineFromKeyed(logged, maxLines, lineSet) ==
    /\ pc = "scan"
    /\ reading
    /\ nread < maxLines
    /\ \E line \in lineSet :
          LET match_ == URL_RE_find(line)
              url == unwrap(match_)
              row == CacheGet(processed_urls, url)
          IN  /\ nread' = nread + 1
              /\ nurl' = IF HasUrl(line) THEN nurl + 1 ELSE nurl
              /\ lines' = IF logged
                          THEN Append(lines, [file |-> fi, text |-> line])
                          ELSE lines
              /\ IF ~is_some(match_)
                 THEN UNCHANGED <<outFile, scanned, jobs>>
                 ELSE IF is_some(row)
                      THEN /\ outFile' =
                                [outFile EXCEPT
                                    !.header = TRUE,
                                    !.rows = InsertByUrl(@,
                                        [rec |-> Serialize(CachedRow(url, unwrap(row))),
                                         src |-> "cache"])]
                           /\ scanned' = Append(scanned, [url |-> url, hit |-> TRUE])
                           /\ jobs' = jobs
                      ELSE /\ jobs' = Append(jobs, [url |-> url, st |-> "queued",
                                                    fetch |-> "none"])
                           /\ scanned' = Append(scanned, [url |-> url, hit |-> FALSE])
                           /\ outFile' = outFile
    /\ UNCHANGED <<cfg, pc, result, processed_urls, prior, fi, reading, missing,
                   work_queue, chan, ndrain, nrecv>>

(* the next line of the open file: first URL match, then cache or pool;     *)
(* maxLines: the lines a run reads at most; lineSet: what a line can be;    *)
(* logged: the line is added to the history lines                           *)
ScanLineFrom(logged, maxLines, lineSet) ==
    /\ pc = "scan"
    /\ reading
    /\ nread < maxLines
    /\ \E line \in lineSet :
          LET match_ == URL_RE_find(line)
              url == unwrap(match_)
              row == CacheGet(processed_urls, url)
          IN  /\ nread' = nread + 1
              /\ nurl' = IF HasUrl(line) THEN nurl + 1 ELSE nurl
              /\ lines' = IF logged
                          THEN Append(lines, [file |-> fi, text |-> line])
                          ELSE lines
              /\ IF ~is_some(match_)
                 THEN UNCHANGED <<outFile, scanned, jobs>>
                 ELSE IF is_some(row)
                      THEN /\ outFile' = WriterSerialize(outFile,
                                             CachedRow(url, unwrap(row)), "cache")
                           /\ scanned' = Append(scanned, [url |-> url, hit |-> TRUE])
                           /\ jobs' = jobs
                      ELSE /\ jobs' = Append(jobs, [url |-> url, st |-> "queued",
                                                    fetch |-> "none"])
                           /\ scanned' = Append(scanned, [url |-> url, hit |-> FALSE])
                           /\ outFile' = outFile
    /\ UNCHANGED <<cfg, pc, result, processed_urls, prior, fi, reading, missing,
                   work_queue, chan, ndrain, nrecv>>

ScanLine == ScanLineFrom(FALSE, MaxLines, LineSet)

(* reader.lines() is exhausted *)
EndOfFile ==
    /\ pc = "scan"
    /\ reading
    /\ AfterFile(fi)
    /\ UNCHANGED <<cfg, outFile, result, processed_urls, prior, missing, nread,
                   nurl, scanned, lines, jobs, work_queue, chan, ndrain, nrecv>>

Busy == {j \in DOMAIN jobs : jobs[j].st \in {"running", "sent"}}

(* a pool thread takes the oldest queued closure *)
JobStart(i) ==
    /\ jobs[i].st = "queued"
    /\ \A j \in 1..(i - 1) : jobs[j].st # "queued"
    /\ Cardinality(Busy) < max_threads
    /\ jobs' = [jobs EXCEPT ![i].st = "running"]
    /\ UNCHANGED <<cfg, outFile, pc, result, processed_urls, prior, fi, reading,
                   missing, nread, nurl, scanned, lines, work_queue, chan, ndrain, nrecv>>

(* whether the fetch of a work item gave a page (history): get returned a    *)
(* response, error_for_status accepted it and text() read the body           *)
FetchKind(resp, body_ok) ==
    IF is_some(resp) /\ unwrap(resp) \notin {"ok_4xx", "ok_5xx"} /\ body_ok
    THEN "ok" ELSE "failed"

(* the closure variant that returns early, sending nothing, when there is *)
(* no row                                                                 *)
TxSendRowsOnly(ch, i, ret) ==
    IF is_some(ret) THEN Append(ch, [job |-> i, row |-> ret]) ELSE ch

(* let _res = tx.send(ret); job is a history tag of the message *)
TxSend(ch, i, ret) == Append(ch, [job |-> i, row |-> ret])

(* what one call of scrape_url can come to, over every course of the       *)
(* network: the value it sends, and whether the fetch gave a page          *)
ScrapeOutcomes ==
    [url \in Urls, maxr \in 0..MaxRetriesCfg |->
        UNION {LET resp == GetResult(Get(url, maxr, NetScript(k, e, final, maxr + 1)))
               IN  UNION {{[ret |-> ScrapeUrl(url, resp, body_ok, page, NoResolve,
                                              maxr),
                            fetch |-> FetchKind(resp, body_ok)] : page \in Pages(url)}
                          : body_ok \in BOOLEAN}
               : k \in 0..maxr, e \in {"err_http", "err_timeout"},
                 final \in SendResults}]

(* self.scrape_url(url, http_client, tx): get, the page, tx.send(ret) *)
JobScrape(i) ==
    /\ jobs[i].st = "running"
    /\ \E out \in ScrapeOutcomes[jobs[i].url, max_retries] :
          /\ chan' = TxSend(chan, i, out.ret)
          /\ jobs' = [jobs EXCEPT ![i].st = "sent", ![i].fetch = out.fetch]
    /\ UNCHANGED <<cfg, outFile, pc, result, processed_urls, prior, fi, reading,
                   missing, nread, nurl, scanned, lines, work_queue, ndrain, nrecv>>

(* work_queue.fetch_add(1, Ordering::SeqCst); the closure ends *)
JobCount(i) ==
    /\ jobs[i].st = "sent"
    /\ work_queue' = work_queue + 1
    /\ jobs' = [jobs EXCEPT ![i].st = "done"]
    /\ UNCHANGED <<cfg, outFile, pc, result, processed_urls, prior, fi, reading,
                   missing, nread, nurl, scanned, lines, chan, ndrain, nrecv>>

(* a scope that does not wait for its closures *)
JoinNoWait ==
    /\ pc = "join"
    /\ pc' = "drain"
    /\ ndrain' = work_queue
    /\ nrecv' = 0
    /\ UNCHANGED <<cfg, outFile, result, processed_urls, prior, fi, reading,
                   missing, nread, nurl, scanned, lines, jobs, work_queue, chan>>

(* the end of pool.scoped: every closure has run; the drain loop reads the   *)
(* counter once                                                              *)
Join ==
    /\ pc = "join"
    /\ \A j \in DOMAIN jobs : jobs[j].st = "done"
    /\ pc' = "drain"
    /\ ndrain' = work_queue
    /\ nrecv' = 0
    /\ UNCHANGED <<cfg, outFile, result, processed_urls, prior, fi, reading,
                   missing, nread, nurl, scanned, lines, jobs, work_queue, chan>>

(* a drain loop that gives up with an error at the first message without a *)
(* record                                                                  *)
DrainRecvAbortOnNone ==
    /\ pc = "drain"
    /\ nrecv < ndrain
    /\ chan # <<>>
    /\ LET res == Head(chan).row
       IN  IF is_some(res)
           THEN /\ outFile' = WriterSerialize(outFile, unwrap(res), "fetch")
                /\ UNCHANGED <<pc, result>>
           ELSE /\ outFile' = outFile
                /\ pc' = "done"
                /\ result' = "Err"
    /\ chan' = Tail(chan)
    /\ nrecv' = nrecv + 1
    /\ UNCHANGED <<cfg, processed_urls, prior, fi, reading, missing, nread, nurl,
                   scanned, lines, jobs, work_queue, ndrain>>

(* a receiver that writes every record as soon as it is in the channel,     *)
(* while the scan and the closures are still going                          *)
DrainRecvEager ==
    /\ pc \in {"scan", "join", "drain"}
    /\ chan # <<>>
    /\ LET res == Head(chan).row
       IN  outFile' = IF is_some(res) THEN WriterSerialize(outFile, unwrap(res), "fetch")
                      ELSE outFile
    /\ chan' = Tail(chan)
    /\ nrecv' = nrecv + 1
    /\ UNCHANGED <<cfg, pc, result, processed_urls, prior, fi, reading, missing,
                   nread, nurl, scanned, lines, jobs, work_queue, ndrain>>

(* one pass of the drain loop: rx.recv() waits for a message;               *)
(* writer.serialize(row)? returns the error of a write that failed, which   *)
(* happens when the record did not fit in the writer's buffer and the       *)
(* device takes no data                                                     *)
DrainRecv ==
    /\ pc = "drain"
    /\ nrecv < ndrain
    /\ chan # <<>>
    /\ LET res == Head(chan).row
       IN  \E write_err \in {b \in BOOLEAN : b => (is_some(res) /\ disk_full)} :
              IF write_err
              THEN /\ outFile' = outFile
                   /\ pc' = "done"
                   /\ result' = "Err"
              ELSE /\ outFile' = IF is_some(res)
                                 THEN WriterSerialize(outFile, unwrap(res), "fetch")
                                 ELSE outFile
                   /\ UNCHANGED <<pc, result>>
    /\ chan' = Tail(chan)
    /\ nrecv' = nrecv + 1
    /\ UNCHANGED <<cfg, processed_urls, prior, fi, reading, missing,
                   nread, nurl, scanned, lines, jobs, work_queue, ndrain>>

(* an end of the run that carries over the prior rows for URLs the input   *)
(* did not have                                                            *)
WriteCsvFileEndKeepPrior ==
    /\ pc = "drain"
    /\ nrecv = ndrain
    /\ pc' = "done"
    /\ result' = "Ok"
    /\ LET Unseen(e) == \A i \in DOMAIN scanned : scanned[i].url # e.rec.url
       IN  outFile' = [outFile EXCEPT !.rows = @ \o SelectSeq(prior.rows, Unseen),
                                      !.header = @ \/ SelectSeq(prior.rows, Unseen) # <<>>]
    /\ UNCHANGED <<cfg, processed_urls, prior, fi, reading, missing,
                   nread, nurl, scanned, lines, jobs, work_queue, chan, ndrain, nrecv>>

(* Ok(()) *)
WriteCsvFileEnd ==
    /\ pc = "drain"
    /\ nrecv = ndrain
    /\ pc' = "done"
    /\ result' = "Ok"
    /\ UNCHANGED <<cfg, outFile, processed_urls, prior, fi, reading, missing,
                   nread, nurl, scanned, lines, jobs, work_queue, chan, ndrain, nrecv>>

Next ==
    \/ WriteCsvFileBegin
    \/ OpenFile
    \/ ScanLine
    \/ EndOfFile
    \/ \E i \in DOMAIN jobs : JobStart(i)
    \/ \E i \in DOMAIN jobs : JobScrape(i)
    \/ \E i \in DOMAIN jobs : JobCount(i)
    \/ Join
    \/ DrainRecv
    \/ WriteCsvFileEnd

Spec == Init /\ [][Next]_vars

----------------------------------------------------------------------------
(* Two consecutive calls of write_csv_file on the same TitleGrabber, the     *)
(* first without a prior output file: the output of the first call is the    *)
(* prior file of the second. Before and between the calls the caller may     *)
(* set max_retries and max_threads.                                          *)

InitRerun ==
    /\ nfiles \in 1..MaxFiles
    /\ max_threads \in 1..MaxThreads
    /\ max_retries = MAX_RETRIES
    /\ outFile = NoFile
    /\ disk_full \in BOOLEAN
    /\ RunStart

(* TitleGrabber::with_max_retries(retries), called outside write_csv_file *)
with_max_retries ==
    /\ pc \in {"idle", "done"}
    /\ \E retries \in 0..MaxRetriesCfg : max_retries' = retries
    /\ UNCHANGED <<nfiles, max_threads, outFile, run, pc, result, processed_urls,
                   prior, fi, reading, missing, nread, nurl, scanned, lines, jobs,
                   work_queue, chan, ndrain, nrecv, gs, scr, ws, disk_full, pool>>

(* TitleGrabber::with_max_threads(threads), called outside write_csv_file *)
with_max_threads ==
    /\ pc \in {"idle", "done"}
    /\ \E threads \in 1..MaxThreads : max_threads' = threads
    /\ UNCHANGED <<nfiles, max_retries, outFile, run, pc, result, processed_urls,
                   prior, fi, reading, missing, nread, nurl, scanned, lines, jobs,
                   work_queue, chan, ndrain, nrecv, gs, scr, ws, disk_full, pool>>

NextRun ==
    /\ pc = "done"
    /\ run = 1
    /\ run' = 2
    /\ pc' = "idle"
    /\ result' = "none"
    /\ RunReset
    /\ disk_full' \in BOOLEAN
    /\ UNCHANGED <<nfiles, max_threads, max_retries, outFile, gs, scr, ws, pool>>

NextRerun == Next \/ NextRun \/ with_max_retries \/ with_max_threads

SpecRerun == InitRerun /\ [][NextRerun]_vars

----------------------------------------------------------------------------
(* The run with the log of the lines it reads: every line read is added to  *)
(* lines with the index of its path. The pool has one thread.               *)

InitScan == Init /\ max_threads = 1

NextScan ==
    \/ WriteCsvFileBegin
    \/ OpenFile
    \/ ScanLineFrom(TRUE, MaxLines, LineSet)
    \/ EndOfFile
    \/ \E i \in DOMAIN jobs : JobStart(i)
    \/ \E i \in DOMAIN jobs : JobScrape(i)
    \/ \E i \in DOMAIN jobs : JobCount(i)
    \/ Join
    \/ DrainRecv
    \/ WriteCsvFileEnd

SpecScan == InitScan /\ [][NextScan]_vars

----------------------------------------------------------------------------
(* A run over an output file that has titled rows for two of the three URLs  *)
(* of its input. The input has two lines with the third URL, which give the  *)
(* pool two closures, and lines with the other two, which are cache hits,    *)
(* read before, between and after them; the lines fall into the input files  *)
(* in every way. The pool has all its threads: what fewer threads can do,    *)
(* more threads can.                                                         *)

PoolLines == <<<<"S", "c", " ", "y">>, <<"S", "c", " ", "y">>>>

InitOrder ==
    /\ nfiles \in 1..MaxFiles
    /\ max_threads = MaxThreads
    /\ max_retries = MAX_RETRIES
    /\ outFile = FileOf(<<FetchedRow(UrlA, PageTitled(UrlA)),
                           FetchedRow(UrlB, PageMoved(UrlB))>>)
    /\ disk_full = FALSE
    /\ RunStart

NextOrder ==
    \/ WriteCsvFileBegin
    \/ OpenFile
    \/ ScanLineFrom(FALSE, MaxLines + Len(PoolLines),
                    {LineA, LineB} \cup {PoolLines[i] : i \in {Len(jobs) + 1}
                                                             \cap DOMAIN PoolLines})
    \/ EndOfFile
    \/ \E i \in DOMAIN jobs : JobStart(i)
    \/ \E i \in DOMAIN jobs : JobScrape(i)
    \/ \E i \in DOMAIN jobs : JobCount(i)
    \/ Join
    \/ DrainRecv
    \/ WriteCsvFileEnd

SpecOrder == InitOrder /\ [][NextOrder]_vars

----------------------------------------------------------------------------
(* One call of get on its own, one request at a time, for any max_retries    *)

InitGet ==
    /\ nfiles = 1
    /\ max_threads = 1
    /\ max_retries \in 0..MaxRetriesCfg
    /\ outFile = NoFile
    /\ disk_full = FALSE
    /\ RunStart

pipeline == <<nfiles, max_threads, max_retries, outFile, run, pc, result,
              processed_urls, prior, fi, reading, missing, nread, nurl, scanned,
              lines, jobs, work_queue, chan, ndrain, nrecv, scr, ws, disk_full, pool>>

GetCall ==
    /\ gs.pc = "idle"
    /\ \E url \in Urls, first \in SendResults : gs' = GetBegin(url, first)
    /\ UNCHANGED pipeline

GetLoop ==
    /\ gs.pc = "loop"
    /\ \E next \in SendResults : gs' = GetStep(gs, max_retries, next)
    /\ UNCHANGED pipeline

NextGet == GetCall \/ GetLoop

SpecGet == InitGet /\ [][NextGet]_vars

----------------------------------------------------------------------------
(* Two closures on the pool, each in scrape_url for its URL, with get        *)
(* stepped statement by statement: the scan is over and the scope waits for  *)
(* the closures. i is the closure, and with it the pool thread that runs it. *)

InitBackoff ==
    /\ nfiles = 1
    /\ max_threads \in 1..MaxThreads
    /\ max_retries \in 0..MaxRetriesCfg
    /\ outFile = EmptyFile
    /\ run = 1
    /\ pc = "join"
    /\ result = "none"
    /\ processed_urls = EmptyMap
    /\ prior = NoFile
    /\ fi = 2
    /\ reading = FALSE
    /\ missing = {}
    /\ nread = 2
    /\ nurl = 2
    /\ scanned = <<[url |-> UrlA, hit |-> FALSE], [url |-> UrlB, hit |-> FALSE]>>
    /\ lines = <<>>
    /\ jobs = <<[url |-> UrlA, st |-> "queued", fetch |-> "none"],
                [url |-> UrlB, st |-> "queued", fetch |-> "none"]>>
    /\ work_queue = 0
    /\ chan = <<>>
    /\ ndrain = 0
    /\ nrecv = 0
    /\ gs = GetIdle
    /\ scr = ScrapeIdle
    /\ ws = FixIdle
    /\ disk_full = FALSE
    /\ pool = [calls |-> <<GetIdle, GetIdle>>, naps |-> {}]

(* closure i enters get and issues the first request *)
BackoffBegin(i) ==
    /\ jobs[i].st = "running"
    /\ pool.calls[i].pc = "idle"
    /\ \E first \in SendResults :
          pool' = [pool EXCEPT !.calls[i] = GetBegin(jobs[i].url, first)]
    /\ UNCHANGED <<nfiles, max_threads, max_retries, run, gs, scr, ws, disk_full,
                   outFile, pc, result, processed_urls, prior, fi, reading,
                   missing, nread, nurl, scanned, lines, work_queue, ndrain, nrecv,
                   jobs, chan>>

(* closure i at the head of the loop *)
BackoffTest(i) ==
    /\ jobs[i].st = "running"
    /\ pool.calls[i].pc = "loop"
    /\ pool' = [pool EXCEPT !.calls[i] = GetTest(pool.calls[i], max_retries)]
    /\ UNCHANGED <<nfiles, max_threads, max_retries, run, gs, scr, ws, disk_full,
                   outFile, pc, result, processed_urls, prior, fi, reading,
                   missing, nread, nurl, scanned, lines, work_queue, ndrain, nrecv,
                   jobs, chan>>

(* closure i sleeps, Duration::from_secs(retries): the thread that sleeps   *)
(* is the one that runs the call                                            *)
BackoffSleep(i) ==
    /\ jobs[i].st = "running"
    /\ pool.calls[i].pc = "sleep"
    /\ pool' = [pool EXCEPT
                    !.calls[i] = GetSleep(pool.calls[i]),
                    !.naps = pool.naps \cup {[by |-> i, url |-> pool.calls[i].url,
                                              secs |-> pool.calls[i].retries]}]
    /\ UNCHANGED <<nfiles, max_threads, max_retries, run, gs, scr, ws, disk_full,
                   outFile, pc, result, processed_urls, prior, fi, reading,
                   missing, nread, nurl, scanned, lines, work_queue, ndrain, nrecv,
                   jobs, chan>>

(* closure i issues its request again *)
BackoffSend(i) ==
    /\ jobs[i].st = "running"
    /\ pool.calls[i].pc = "send"
    /\ \E next \in SendResults :
          pool' = [pool EXCEPT !.calls[i] = GetSend(pool.calls[i], next)]
    /\ UNCHANGED <<nfiles, max_threads, max_retries, run, gs, scr, ws, disk_full,
                   outFile, pc, result, processed_urls, prior, fi, reading,
                   missing, nread, nurl, scanned, lines, work_queue, ndrain, nrecv,
                   jobs, chan>>

(* get has returned to scrape_url in closure i: the rest of scrape_url, on  *)
(* a document without titles or links, and tx.send(ret)                     *)
BackoffEnd(i) ==
    /\ jobs[i].st = "running"
    /\ pool.calls[i].pc = "done"
    /\ LET resp == GetResult(pool.calls[i])
       IN  \E body_ok \in BOOLEAN :
              /\ chan' = TxSend(chan, i, ScrapeUrl(jobs[i].url, resp, body_ok,
                                                   PagePlain(jobs[i].url), NoResolve,
                                                   max_retries))
              /\ jobs' = [jobs EXCEPT ![i].st = "sent",
                                      ![i].fetch = FetchKind(resp, body_ok)]
    /\ UNCHANGED <<cfg, outFile, pc, result, processed_urls, prior, fi, reading,
                   missing, nread, nurl, scanned, lines, work_queue, ndrain, nrecv>>

NextBackoff ==
    \/ \E i \in DOMAIN jobs : JobStart(i)
    \/ \E i \in DOMAIN jobs : BackoffBegin(i)
    \/ \E i \in DOMAIN jobs : BackoffTest(i)
    \/ \E i \in DOMAIN jobs : BackoffSleep(i)
    \/ \E i \in DOMAIN jobs : BackoffSend(i)
    \/ \E i \in DOMAIN jobs : BackoffEnd(i)
    \/ \E i \in DOMAIN jobs : JobCount(i)
    \/ Join
    \/ DrainRecv
    \/ WriteCsvFileEnd

SpecBackoff == InitBackoff /\ [][NextBackoff]_vars

----------------------------------------------------------------------------
(* One work item on its own: the run has read one line with a URL that is   *)
(* not in the cache, submitted its closure and come to the end of the scope. *)
(* The closure's scrape_url is taken with everything it is given: what      *)
(* send() answers, the document, and what the secondary fetches come to.    *)
(* SpecScrape varies the answers of send(), SpecLinks the document.         *)

SeqsOver(S, n) == UNION {[1..k -> S] : k \in 0..n}

(* the locations the fetch of the page itself can end at: another site, a   *)
(* status of the permalink host, and a page of the permalink host below a   *)
(* status                                                                   *)
PageLocs == {LocDoc, LocStatus, LocPhoto}

(* the documents of a response: one title, the links the selectors find *)
ScrapePages ==
    {[final |-> f, title |-> Some(<<" ", "T", "\n">>), art_h1 |-> None,
      h1 |-> Some(<<"H">>), links |-> l] : f \in PageLocs, l \in SeqsOver(Hrefs, MaxLinks)}

(* what the secondary fetches of a page can come to *)
Resolves(page) ==
    [{h \in Hrefs : \E i \in DOMAIN page.links : page.links[i] = h /\ HasUrl(h)}
        -> SecResults]

InitScrape ==
    /\ nfiles = 1
    /\ max_threads = 1
    /\ max_retries \in 0..MaxRetriesCfg
    /\ outFile = EmptyFile
    /\ run = 1
    /\ pc = "join"
    /\ result = "none"
    /\ processed_urls = EmptyMap
    /\ prior = NoFile
    /\ fi = 2
    /\ reading = FALSE
    /\ missing = {}
    /\ nread = 1
    /\ nurl = 1
    /\ scanned = <<[url |-> UrlA, hit |-> FALSE]>>
    /\ lines = <<>>
    /\ jobs = <<[url |-> UrlA, st |-> "running", fetch |-> "none"]>>
    /\ work_queue = 0
    /\ chan = <<>>
    /\ ndrain = 0
    /\ nrecv = 0
    /\ gs = GetIdle
    /\ scr = ScrapeIdle
    /\ ws = FixIdle
    /\ pool = [calls |-> <<>>, naps |-> {}]
    /\ disk_full \in BOOLEAN

(* what send() can answer to the requests of one call of get: k retryable  *)
(* failures, then the same answer to every later request                   *)
NetScripts(maxr) ==
    {NetScript(k, e, final, maxr + 1) :
        k \in 0..maxr, e \in {"err_http", "err_timeout"}, final \in SendResults}

(* every request is answered 200 at once *)
NetOk(maxr) == NetScript(0, "err_timeout", "ok_2xx", maxr + 1)

(* self.scrape_url(url, http_client, tx) of closure i, for the answers and  *)
(* the documents given: gs is the call of get for the page, scr what the    *)
(* call was given and what it sent                                          *)
ScrapeCallWith(i, scripts, pages) ==
    /\ jobs[i].st = "running"
    /\ \E outs \in scripts :
          LET g == Get(jobs[i].url, max_retries, outs)
              resp == GetResult(g)
          IN  \E body_ok \in BOOLEAN :
              \E page \in IF FetchKind(resp, body_ok) = "ok"
                          THEN pages ELSE {PagePlain(jobs[i].url)} :
              \E resolve \in Resolves(page) :
                 LET ret == ScrapeUrl(jobs[i].url, resp, body_ok, page, resolve,
                                      max_retries)
                 IN  /\ gs' = g
                     /\ scr' = [pc |-> "done", outs |-> outs, body_ok |-> body_ok,
                                page |-> page, resolve |-> resolve,
                                fetched |-> IF FetchKind(resp, body_ok) = "ok"
                                            THEN SecondaryFetches(page) ELSE <<>>,
                                ret |-> ret]
                     /\ chan' = TxSend(chan, i, ret)
                     /\ jobs' = [jobs EXCEPT ![i].st = "sent",
                                             ![i].fetch = FetchKind(resp, body_ok)]
    /\ UNCHANGED <<nfiles, max_threads, max_retries, run, ws, disk_full, pool, outFile, pc,
                   result,
                   processed_urls, prior, fi, reading, missing, nread, nurl,
                   scanned, lines, work_queue, ndrain, nrecv>>

(* the call for every course of the requests, on a document without links *)
ScrapeCall(i) == ScrapeCallWith(i, NetScripts(max_retries), Pages(jobs[i].url))

NextScrape ==
    \/ \E i \in DOMAIN jobs : ScrapeCall(i)
    \/ \E i \in DOMAIN jobs : JobCount(i)
    \/ Join
    \/ DrainRecv
    \/ WriteCsvFileEnd

SpecScrape == InitScrape /\ [][NextScrape]_vars

----------------------------------------------------------------------------
(* The same work item with the default max_retries and a request that is    *)
(* answered at once, for every document of up to MaxLinks links and every   *)
(* outcome of the secondary fetches, on an output device that takes the     *)
(* writes.                                                                  *)

InitLinks == InitScrape /\ max_retries = MAX_RETRIES /\ ~disk_full

ScrapeLinksCall(i) == ScrapeCallWith(i, {NetOk(max_retries)}, ScrapePages)

NextLinks ==
    \/ \E i \in DOMAIN jobs : ScrapeLinksCall(i)
    \/ \E i \in DOMAIN jobs : JobCount(i)
    \/ Join
    \/ DrainRecv
    \/ WriteCsvFileEnd

SpecLinks == InitLinks /\ [][NextLinks]_vars

----------------------------------------------------------------------------
(* fix_whitespace on its own: applied to a string, and again to its result *)

HtmlSyms == WsSyms \cup {"T"}
Htmls == SeqsOver(HtmlSyms, MaxHtmlLen)

InitFix ==
    /\ nfiles = 1
    /\ max_threads = 1
    /\ max_retries = MAX_RETRIES
    /\ outFile = NoFile
    /\ run = 1
    /\ pc = "idle"
    /\ result = "none"
    /\ processed_urls = EmptyMap
    /\ prior = NoFile
    /\ fi = 0
    /\ reading = FALSE
    /\ missing = {}
    /\ nread = 0
    /\ nurl = 0
    /\ scanned = <<>>
    /\ lines = <<>>
    /\ jobs = <<>>
    /\ work_queue = 0
    /\ chan = <<>>
    /\ ndrain = 0
    /\ nrecv = 0
    /\ gs = GetIdle
    /\ scr = ScrapeIdle
    /\ \E html \in Htmls : ws = [n |-> 0, html |-> html, prev |-> html, out |-> html]
    /\ pool = [calls |-> <<>>, naps |-> {}]
    /\ disk_full = FALSE

FixWhitespaceCall ==
    /\ ws.n < 2
    /\ ws' = [ws EXCEPT !.n = ws.n + 1, !.prev = ws.out, !.out = fix_whitespace(ws.out)]
    /\ UNCHANGED <<nfiles, max_threads, max_retries, outFile, run, pc, result,
                   processed_urls, prior, fi, reading, missing, nread, nurl,
                   scanned, lines, jobs, work_queue, chan, ndrain, nrecv, gs, scr,
                   disk_full, pool>>

NextFix == FixWhitespaceCall

SpecFix == InitFix /\ [][NextFix]_vars

----------------------------------------------------------------------------
(* Properties *)

Finished == pc = "done" /\ result = "Ok"

RetryableErrs == {"err_http", "err_timeout"}

OutRecs == [i \in DOMAIN outFile.rows |-> outFile.rows[i].rec]
PriorRecs == [i \in DOMAIN prior.rows |-> prior.rows[i].rec]
Titled(rec) == rec.page_title # <<>> \/ rec.article_title # <<>>

ScannedUrls == {scanned[i].url : i \in DOMAIN scanned}
JobUrls == {jobs[i].url : i \in DOMAIN jobs}

IsCacheRow(e) == e.src = "cache"
IsFetchRow(e) == e.src = "fetch"
IsHit(e) == e.hit
UrlsOfRows(rows) == [i \in DOMAIN rows |-> rows[i].rec.url]
UrlsOfScan(sc) == [i \in DOMAIN sc |-> sc[i].url]
CacheRowUrls == UrlsOfRows(SelectSeq(outFile.rows, IsCacheRow))
InCache(u) == u \in DOMAIN processed_urls

(* C1: when every request of a call of get fails with a retryable error, the *)
(* call issues exactly max_retries + 1 requests and returns no response.     *)
(* The code issues max(1, max_retries) requests.                             *)
C1_AttemptsAreMaxRetriesPlusOne ==
    (gs.pc = "done" /\ gs.res \in RetryableErrs)
        => (gs.nreq = max_retries + 1 /\ GetResult(gs) = None)

(* C2: after a run, every url value is in at most one row of the output.     *)
(* The code writes one row per matching line.                                *)
C2_UrlAtMostOnce ==
    Finished =>
        \A i, j \in DOMAIN outFile.rows :
            i # j => outFile.rows[i].rec.url # outFile.rows[j].rec.url

(* C3: a prior row for URL X with a non-empty title, X being in the input:   *)
(* the run writes a row equal to it in all four fields and X is never        *)
(* submitted to the pool. Stated for a device that takes the writes.         *)
C3_CacheReuse ==
    (Finished /\ ~disk_full) =>
        \A i \in DOMAIN PriorRecs :
            (Titled(PriorRecs[i]) /\ PriorRecs[i].url \in ScannedUrls)
                => /\ \E j \in DOMAIN OutRecs : OutRecs[j] = PriorRecs[i]
                   /\ PriorRecs[i].url \notin JobUrls

(* C4: a URL for which the prior run wrote no row, or a row with both titles *)
(* empty, is not in the cache, and if it is in the input it is submitted and *)
(* fetched again; only rows with a non-empty title enter the cache.          *)
C4_FailuresNotCached ==
    pc # "idle" =>
        /\ \A u \in Urls :
              (\/ \A i \in DOMAIN PriorRecs : PriorRecs[i].url # u
               \/ \E i \in DOMAIN PriorRecs :
                     PriorRecs[i].url = u /\ ~Titled(PriorRecs[i]))
                 => /\ ~InCache(u)
                    /\ (Finished /\ u \in ScannedUrls)
                          => \E k \in DOMAIN jobs :
                                jobs[k].url = u /\ jobs[k].fetch # "none"
        /\ \A u \in DOMAIN processed_urls :
              \E i \in DOMAIN PriorRecs : PriorRecs[i].url = u /\ Titled(PriorRecs[i])

(* C5 as stated: the drain starts only after every submitted work item has   *)
(* completed; then the counter equals the number of items submitted and the  *)
(* number of results in the channel, and the drain performs exactly that     *)
(* many receives and leaves no result in the channel.                        *)
C5_DrainAlwaysExactlySubmitted ==
    /\ pc = "drain" =>
          /\ \A j \in DOMAIN jobs : jobs[j].st = "done"
          /\ work_queue = Len(jobs)
          /\ ndrain = Len(jobs)
          /\ Len(chan) + nrecv = ndrain
    /\ (pc = "done" /\ fi > 0) =>
          /\ \A j \in DOMAIN jobs : jobs[j].st = "done"
          /\ nrecv = Len(jobs)
          /\ chan = <<>>

(* C5, amended: the drain starts only after every submitted work item has    *)
(* completed; then the counter equals the number of items submitted and the  *)
(* number of results in the channel, and every receive of the drain finds a  *)
(* message. A drain that is not cut short by a failed write performs exactly *)
(* that many receives and leaves the channel empty; when the write of a      *)
(* fetched record fails the drain ends at that receive with the error        *)
(* returned and the results not yet received left in the channel.            *)
C5_DrainExactlySubmitted ==
    /\ pc = "drain" =>
          /\ \A j \in DOMAIN jobs : jobs[j].st = "done"
          /\ work_queue = Len(jobs)
          /\ ndrain = Len(jobs)
          /\ Len(chan) + nrecv = ndrain
    /\ Finished =>
          /\ \A j \in DOMAIN jobs : jobs[j].st = "done"
          /\ nrecv = Len(jobs)
          /\ chan = <<>>
    /\ (pc = "done" /\ fi > 0 /\ ~disk_full) => Finished
    /\ (pc = "done" /\ fi > 0 /\ result = "Err")
          => /\ disk_full
             /\ \A j \in DOMAIN jobs : jobs[j].st = "done"
             /\ nrecv >= 1
             /\ Len(chan) + nrecv = ndrain

(* a drain in progress whose first message came from the second work item *)
C5_Witness ==
    /\ pc = "drain"
    /\ Len(jobs) >= 2
    /\ nrecv = 1
    /\ chan # <<>>
    /\ Head(chan).job = 1

MsgsOf(i) == {k \in DOMAIN chan : chan[k].job = i}

(* C6: every work item sends exactly one message, on every path of           *)
(* scrape_url: a row when the fetch and the body read succeeded, no record   *)
(* otherwise; a no-record message is received by the drain and writes no row. *)
C6_OneMessagePerItem ==
    /\ \A i \in DOMAIN jobs :
          /\ pc \in {"scan", "join"} =>
                Cardinality(MsgsOf(i)) = IF jobs[i].st \in {"sent", "done"} THEN 1 ELSE 0
          /\ Cardinality(MsgsOf(i)) <= 1
          /\ \A k \in MsgsOf(i) : is_some(chan[k].row) <=> jobs[i].fetch = "ok"
    /\ pc = "drain" => Len(chan) + nrecv = Len(jobs)
    /\ Finished =>
          /\ nrecv = Len(jobs)
          /\ Len(SelectSeq(outFile.rows, IsFetchRow))
                = IF disk_full THEN 0
                  ELSE Cardinality({i \in DOMAIN jobs : jobs[i].fetch = "ok"})

(* a finished run with a work item that produced a row and one that did not *)
C6_Witness ==
    /\ Finished
    /\ \E i, j \in DOMAIN jobs : jobs[i].fetch = "ok" /\ jobs[j].fetch = "failed"
    /\ Len(SelectSeq(outFile.rows, IsFetchRow)) = 1

(* C7: the rows written for cache hits are in the output in the order their  *)
(* URLs were scanned: input-file order, then line order, whatever the        *)
(* closures of the pool do meanwhile. Every scanned URL that is in the cache *)
(* is a hit, and the cache rows of the output are the hits, in the order the *)
(* scan read them; on a device that takes no data there is no row.           *)
C7_CachedRowsInScanOrder ==
    /\ \A i \in DOMAIN scanned : scanned[i].hit <=> InCache(scanned[i].url)
    /\ CacheRowUrls = IF disk_full THEN <<>> ELSE UrlsOfScan(SelectSeq(scanned, IsHit))

(* the scan has read a line for the pool, a hit for the second URL, another *)
(* line for the pool and, from the last file, a hit for the first URL; the  *)
(* first closure has sent its result and the second is in its fetch         *)
C7_Witness ==
    /\ pc = "scan"
    /\ fi = nfiles
    /\ fi > 1
    /\ UrlsOfScan(scanned) = <<UrlC, UrlB, UrlC, UrlA>>
    /\ CacheRowUrls = <<UrlB, UrlA>>
    /\ Len(jobs) = 2
    /\ jobs[1].st = "sent"
    /\ jobs[2].st = "running"

(* C8 as stated: an input file that cannot be opened aborts the run with an  *)
(* error.                                                                    *)
C8_UnopenableInputIsFatal ==
    (pc = "done" /\ missing # {}) => result = "Err"

(* C8 amended: an input file that cannot be opened is skipped; the other     *)
(* input files are still scanned, in order, and the run returns Ok, unless   *)
(* the write of a fetched record fails in the drain.                         *)
C8_UnopenableInputIsSkipped ==
    /\ (pc = "done" /\ missing # {})
          => /\ fi = nfiles + 1
             /\ result = "Ok" \/ (disk_full /\ nrecv >= 1)
    /\ pc \in {"scan", "join", "drain"} => result = "none"

(* the first file could not be opened and a later one was still scanned *)
C8_Witness ==
    /\ pc = "done"
    /\ 1 \in missing
    /\ scanned # <<>>

(* C9: a missing input path is skipped and the run returns Ok; the output    *)
(* file is created, and it is empty when no other input yields a URL. The    *)
(* run returns an error only for the write of a record fetched for another   *)
(* input's URL.                                                              *)
C9_MissingInputGivesEmptyOutput ==
    (pc = "done" /\ missing # {})
        => /\ result = "Ok"
                \/ (disk_full /\ \E i \in DOMAIN jobs : jobs[i].fetch = "ok")
           /\ outFile.exists
           /\ scanned = <<>> => (result = "Ok" /\ outFile = EmptyFile)

(* a run in which no input could be opened, over a prior file with rows *)
C9_Witness ==
    /\ pc = "done"
    /\ missing = 1..nfiles
    /\ prior.rows # <<>>
    /\ outFile = EmptyFile

(* C10: a line with no URL-shaped substring creates no work item and no row: *)
(* the work items and cached rows are as many as the lines read that have    *)
(* one; a run over lines without any returns Ok and leaves the output empty. *)
C10_NoMatchNoWork ==
    /\ Len(jobs) + Len(SelectSeq(scanned, IsHit)) = nurl
    /\ Len(CacheRowUrls) = IF disk_full THEN 0 ELSE Len(SelectSeq(scanned, IsHit))
    /\ (pc = "done" /\ fi > 0 /\ nurl = 0)
          => /\ result = "Ok"
             /\ jobs = <<>>
             /\ outFile = EmptyFile

(* a finished run that read lines, none of which has a URL *)
C10_Witness ==
    /\ Finished
    /\ nread >= 1
    /\ nurl = 0

(* the call of scrape_url has produced a row *)
ScrapeRow == scr.pc = "done" /\ is_some(scr.ret)

(* str cut at every sep *)
RECURSIVE SplitSep(_, _)
SplitSep(str, sep) ==
    LET i == FirstIn(str, 1, {sep})
    IN  IF i > Len(str) THEN <<str>>
        ELSE <<SubSeq(str, 1, i - 1)>> \o SplitSep(SubSeq(str, i + 1, Len(str)), sep)

(* the URLs listed in end_url of the row, and the ones among them that are  *)
(* on the permalink host                                                    *)
Listed == SplitSep(unwrap(scr.ret).end_url, CSV_FIELD_SEP)
ListedOnHost ==
    LET parsed == [i \in DOMAIN Listed |-> UrlParse(Listed[i])]
    IN  {unwrap(parsed[i]) : i \in {j \in DOMAIN parsed :
            is_some(parsed[j]) /\ unwrap(parsed[j]).host = TWITTER_HOST}}

(* the surviving candidates of the call *)
Survivors == TweetUrls(scr.page, scr.resolve, max_retries)

(* the path ends in /status/<digits> *)
PathIsStatus(u) == TWITTER_STATUS_RE_is_match(u.path)

(* the candidates of the call that were fetched and answered *)
Answered == {scr.fetched[i] : i \in {j \in DOMAIN scr.fetched :
                                        scr.resolve[scr.fetched[j]].send = "ok_2xx"}}

(* what the filters make of candidate h *)
Outcome(h) == Candidate(h, scr.resolve, max_retries)

(* the links of the document that are kept as candidates *)
LinkSet == {scr.page.links[i] : i \in {j \in DOMAIN scr.page.links :
                                          scr.page.links[j] # <<>>}}

(* the URL candidate h stands for when it comes to the last filter: the      *)
(* location its secondary fetch ended at, or the href itself, relative to    *)
(* the permalink host if it starts with "/"                                  *)
CandidateUrl(h) ==
    IF h \in Answered THEN UrlParse(scr.resolve[h].loc) ELSE ParseCandidate(h)

IsListed(str) == \E i \in DOMAIN Listed : Listed[i] = str

(* C11 as stated: in every row of scrape_url, every URL listed in end_url    *)
(* that is on the permalink host has a path ending in /status/<digits>.      *)
C11_PermalinkHostUrlsAreStatus ==
    ScrapeRow => \A u \in ListedOnHost : PathIsStatus(u)

(* the links of the document that were replaced by the location of an       *)
(* answered secondary fetch, and the ones that were not                     *)
ReplacedLinks == LinkSet \cap Answered
OwnLinks == LinkSet \ Answered

(* C11 amended: in a row with at least one surviving candidate,              *)
(*  - a listed URL on the permalink host with more than one "/" in its path  *)
(*    ends in /status/<digits>;                                              *)
(*  - a listed URL on the permalink host that does not end in                *)
(*    /status/<digits> has a single "/" in its path and is the URL of a      *)
(*    candidate that was not replaced by the location of an answered         *)
(*    secondary fetch (a relative href joined to the permalink host, or a    *)
(*    full URL whose fetch failed);                                          *)
(*  - every such candidate with a single "/" in its path is listed;          *)
(*  - a candidate whose answered fetch ended on the permalink host at a      *)
(*    location that does not end in /status/<digits> is dropped, however     *)
(*    short the path of that location.                                       *)
C11_DeepPermalinkHostUrlsAreStatus ==
    ScrapeRow =>
        LET listed == Listed
            onHost == ListedOnHost
            own == OwnLinks
            replaced == ReplacedLinks
            url == [h \in LinkSet |-> CandidateUrl(h)]
            out == [h \in LinkSet |-> Outcome(h)]
            isListed(str) == \E i \in DOMAIN listed : listed[i] = str
        IN  (\E h \in LinkSet : out[h] # None)
               => /\ \A u \in onHost :
                        fwd_slash_cnt(u) > 1
                           => (PathIsStatus(u) /\ TWITTER_STATUS_RE_is_match(as_str(u)))
                  /\ \A u \in onHost :
                        ~TWITTER_STATUS_RE_is_match(as_str(u))
                           => /\ fwd_slash_cnt(u) <= 1
                              /\ \E h \in own : url[h] = Some(u)
                  /\ \A h \in own :
                        (is_some(url[h]) /\ unwrap(url[h]).host = TWITTER_HOST
                            /\ fwd_slash_cnt(unwrap(url[h])) <= 1)
                           => isListed(as_str(unwrap(url[h])))
                  /\ \A h \in replaced :
                        (unwrap(url[h]).host = TWITTER_HOST
                            /\ ~TWITTER_STATUS_RE_is_match(as_str(unwrap(url[h]))))
                           => /\ out[h] = None
                              /\ (\A g \in LinkSet \ {h} : out[g] # Some(scr.resolve[h].loc))
                                    => ~isListed(scr.resolve[h].loc)

(* a row whose document linked a profile of the permalink host by a         *)
(* relative href and a shortener whose fetch was answered from that very     *)
(* profile: the URL is listed once, for the relative href                    *)
C11_Witness ==
    /\ ScrapeRow
    /\ scr.page.links = <<HrefShortA, HrefMention>>
    /\ scr.resolve[HrefShortA].loc = LocProfile
    /\ Outcome(HrefShortA) = None
    /\ Listed = <<LocProfile>>
    /\ pc = "done"

(* C12: for a fetched page with at least one surviving candidate, end_url is *)
(* the surviving links joined by the separator, in ascending order and with  *)
(* no link twice. The code removes duplicates among the raw href values      *)
(* only, before they are resolved.                                           *)
C12_EndUrlSortedNoDuplicates ==
    (ScrapeRow /\ Survivors # <<>>)
        => /\ unwrap(scr.ret).end_url = Join_(Survivors, CSV_FIELD_SEP)
           /\ \A i, j \in DOMAIN Listed : i < j => StrLess(Listed[i], Listed[j])

(* C13: a request answered with a 5xx status is a retryable failure: get     *)
(* gives up on such an answer only when the retry budget is used up. In the  *)
(* code send() returns Ok for a 5xx answer, so the loop of get ends at once. *)
C13_ServerErrorIsRetried ==
    (gs.pc = "done" /\ gs.res = "ok_5xx") => gs.nreq >= max_retries

(* C14: a URL whose request is answered with a 4xx status is terminal: no    *)
(* request follows that answer, so a URL answered 4xx at once costs exactly  *)
(* one request and no sleep; the closure sends no record, and no row is      *)
(* written for the URL.                                                      *)
C14_ClientErrorIsTerminal ==
    /\ (scr.pc = "done" /\ gs.res = "ok_4xx")
          => /\ scr.outs[gs.nreq] = "ok_4xx"
             /\ \A i \in 1..(gs.nreq - 1) : scr.outs[i] # "ok_4xx"
             /\ scr.ret = None
             /\ \A k \in DOMAIN chan : chan[k].row = None
             /\ outFile = EmptyFile
    /\ (scr.pc = "done" /\ scr.outs[1] = "ok_4xx")
          => /\ gs.res = "ok_4xx"
             /\ gs.nreq = 1
             /\ gs.slept = <<>>

(* the run is over: the URL was answered 404 at once, its message was        *)
(* received and the output has no row                                        *)
C14_Witness ==
    /\ Finished
    /\ scr.pc = "done"
    /\ scr.outs[1] = "ok_4xx"
    /\ gs.nreq = 1
    /\ nrecv = 1
    /\ outFile = EmptyFile

(* the last request get can issue for a URL *)
FinalAttempt == IF max_retries = 0 THEN 1 ELSE max_retries

(* the first n requests of the call were answered with retryable errors *)
FailedFirst(n) == \A i \in 1..n : scr.outs[i] \in RetryableErrs

(* C15: a URL that fails with a retryable error max_retries times in a row   *)
(* has used up its attempts: no further request is issued and no row is      *)
(* written. A URL whose request succeeds on the final permitted attempt,     *)
(* after retryable failures on all earlier ones, gets a normal row.          *)
C15_RetryBoundary ==
    /\ (scr.pc = "done" /\ max_retries >= 1 /\ FailedFirst(max_retries))
          => /\ gs.nreq = max_retries
             /\ scr.ret = None
             /\ outFile = EmptyFile
    /\ (/\ scr.pc = "done"
        /\ FailedFirst(FinalAttempt - 1)
        /\ scr.outs[FinalAttempt] = "ok_2xx"
        /\ scr.body_ok)
          => /\ gs.nreq = FinalAttempt
             /\ is_some(scr.ret)
             /\ unwrap(scr.ret).url = jobs[1].url
             /\ Finished => OutRecs = IF disk_full THEN <<>>
                                      ELSE <<Serialize(unwrap(scr.ret))>>

(* the run is over: with max_retries = 3 two requests timed out, the third   *)
(* was answered, and the row is in the output                                *)
C15_Witness ==
    /\ Finished
    /\ max_retries = 3
    /\ scr.outs[1] = "err_timeout"
    /\ scr.outs[2] = "err_timeout"
    /\ scr.outs[3] = "ok_2xx"
    /\ gs.nreq = 3
    /\ Len(outFile.rows) = 1

(* C16: fix_whitespace is idempotent, and its result has no whitespace at    *)
(* either end, no newline and no two whitespace characters in a row.         *)
C16_FixWhitespaceIdempotent ==
    /\ ws.n >= 1
          => /\ ws.out # <<>> => (~IsWs(ws.out[1]) /\ ~IsWs(ws.out[Len(ws.out)]))
             /\ \A i \in DOMAIN ws.out : ws.out[i] # "\n"
             /\ \A i \in 1..(Len(ws.out) - 1) : ~(IsWs(ws.out[i]) /\ IsWs(ws.out[i + 1]))
    /\ ws.n = 2 => ws.out = ws.prev

(* the second call on a string that had a newline and a space in a row *)
C16_Witness ==
    /\ ws.n = 2
    /\ ws.html = <<"T", "\n", " ", "T">>
    /\ ws.out = <<"T", " ", "T">>

(* the work items for URL u whose fetch gave a page, and the fetched rows of *)
(* the output for u                                                          *)
OkJobsOf(u) == {i \in DOMAIN jobs : jobs[i].url = u /\ jobs[i].fetch = "ok"}
FetchRowsOf(u) ==
    {k \in DOMAIN outFile.rows : outFile.rows[k].src = "fetch" /\ outFile.rows[k].rec.url = u}

(* C17: whatever the URLs and the interleaving of the pool threads, a work   *)
(* item that ends without a record takes no row from another: at the end of  *)
(* the run every work item whose fetch gave a page has its row, and once the *)
(* output file is open write_csv_file returns Ok. Stated for a device that   *)
(* takes the writes; on one that does not, the run returns an error only     *)
(* for the write of a record, never for a work item without one.             *)
C17_FailureIsolation ==
    /\ (Finished /\ ~disk_full)
          => \A u \in Urls : Cardinality(FetchRowsOf(u)) = Cardinality(OkJobsOf(u))
    /\ (pc = "done" /\ fi > 0 /\ ~disk_full) => result = "Ok"
    /\ (pc = "done" /\ fi > 0 /\ result = "Err")
          => \E i \in DOMAIN jobs : jobs[i].fetch = "ok"
    /\ pc = "drain" => \A i \in DOMAIN jobs : jobs[i].fetch # "none"

(* the run is over: the first work item failed, the second, for another URL, *)
(* has its row                                                               *)
C17_Witness ==
    /\ Finished
    /\ Len(jobs) = 2
    /\ jobs[1].fetch = "failed"
    /\ jobs[2].fetch = "ok"
    /\ jobs[1].url # jobs[2].url
    /\ FetchRowsOf(jobs[2].url) # {}
    /\ FetchRowsOf(jobs[1].url) = {}

(* the host of the location the page came from *)
PageHost == unwrap(UrlParse(scr.page.final)).host

(* C18: permalink resolution runs only for a page whose final host is the    *)
(* permalink host: for a page on another host end_url is the page's own      *)
(* location and no secondary fetch is issued, whatever links its document    *)
(* has. The code never looks at the host of the page.                        *)
C18_ResolutionOnlyOnPermalinkHost ==
    (ScrapeRow /\ PageHost # TWITTER_HOST)
        => /\ unwrap(scr.ret).end_url = scr.page.final
           /\ scr.fetched = <<>>

(* C19: a URL-like candidate whose secondary fetch is answered is dropped    *)
(* exactly when the host of the resolved location is the permalink host and  *)
(* its path does not end in /status/<digits>; otherwise it is replaced by    *)
(* the resolved location and listed. The code tests the whole URL string,    *)
(* query included, not the path.                                             *)
C19_DropDependsOnHostAndPath ==
    ScrapeRow =>
        \A h \in Answered :
            LET loc == scr.resolve[h].loc
                u == unwrap(UrlParse(loc))
            IN  /\ (Outcome(h) = None) <=> (u.host = TWITTER_HOST /\ ~PathIsStatus(u))
                /\ Outcome(h) # None
                      => /\ Outcome(h) = Some(loc)
                         /\ \E i \in DOMAIN Listed : Listed[i] = loc

(* C20: when no candidate survives the filters, also when the document has   *)
(* no permalink link at all, end_url of the row is the location the page     *)
(* came from; when one survives, end_url is the joined list, which has the   *)
(* page's own location only if that is a survivor itself.                    *)
C20_EndUrlFallback ==
    ScrapeRow =>
        LET survivors == Survivors
            listed == Listed
        IN  /\ scr.page.links = <<>> => survivors = <<>>
            /\ survivors = <<>> => unwrap(scr.ret).end_url = scr.page.final
            /\ survivors # <<>>
                  => /\ listed = survivors
                     /\ (\E i \in DOMAIN listed : listed[i] = scr.page.final)
                           => \E h \in {scr.page.links[k] : k \in DOMAIN scr.page.links} :
                                 Outcome(h) = Some(scr.page.final)

(* a row for a status page whose only link, a hashtag, was dropped: end_url  *)
(* is the location of the page                                               *)
C20_Witness ==
    /\ ScrapeRow
    /\ scr.page.links = <<HrefTag>>
    /\ scr.page.final = LocStatus
    /\ unwrap(scr.ret).end_url = LocStatus
    /\ pc = "done"

----------------------------------------------------------------------------
(* the entries of the log of a call: a request, a sleep of secs seconds *)
Sent == [ev |-> "send", secs |-> 0]
Slept(secs) == [ev |-> "sleep", secs |-> secs]

(* the n-th entry of a log of a call is what the loop does n-th: a request, *)
(* then a sleep and a request for every retry                               *)
IsBackoffLog(log) ==
    \A n \in DOMAIN log :
        IF n % 2 = 1 THEN log[n] = Sent ELSE log[n] = Slept(n \div 2)

(* C21: whenever get retries, the sleep before the k-th retry is exactly k  *)
(* seconds (k = 1, 2, ...); no request is issued again without that sleep   *)
(* directly before it, and no sleep is taken that no request follows once   *)
(* the call has ended; every sleep is taken by the closure (the pool        *)
(* thread) that handles the URL, while that closure runs, and the calls in  *)
(* progress are never more than the pool has threads.                       *)
C21_LinearBackoff ==
    /\ \A i \in DOMAIN jobs :
          LET g == pool.calls[i]
          IN  /\ IsBackoffLog(g.log)
              /\ g.pc # "idle" => g.url = jobs[i].url
              /\ g.pc \in {"idle", "loop", "done"} =>
                    /\ Len(g.log) = IF g.pc = "idle" THEN 0 ELSE 2 * g.nreq - 1
                    /\ g.pc # "idle" => g.log[Len(g.log)] = Sent
              /\ g.pc = "sleep" => g.log[Len(g.log)] = Sent /\ g.retries = g.nreq
              /\ g.pc = "send" => g.log[Len(g.log)] = Slept(g.nreq)
              /\ g.pc \in {"loop", "sleep", "send"} => jobs[i].st = "running"
              /\ jobs[i].st = "queued" => g.pc = "idle"
    /\ \A n \in pool.naps :
          /\ n.by \in DOMAIN jobs
          /\ jobs[n.by].url = n.url
          /\ jobs[n.by].st # "queued"
          /\ Slept(n.secs) \in {pool.calls[n.by].log[k] : k \in DOMAIN pool.calls[n.by].log}
    /\ \A i \in DOMAIN jobs :
          \A k \in DOMAIN pool.calls[i].slept :
              /\ pool.calls[i].slept[k] = k
              /\ [by |-> i, url |-> jobs[i].url, secs |-> pool.calls[i].slept[k]]
                    \in pool.naps
    /\ pc = "join"
          => Cardinality({i \in DOMAIN jobs : pool.calls[i].pc \in {"loop", "sleep", "send"}})
                <= max_threads

(* the first closure has slept 1 and 2 seconds and is about to issue its    *)
(* third request, while the second closure, on another thread, has issued   *)
(* its first request and its first retry after a sleep of 1 second         *)
C21_Witness ==
    /\ pool.calls[1].pc = "send"
    /\ pool.calls[1].log = <<Sent, Slept(1), Sent, Slept(2)>>
    /\ pool.calls[2].log = <<Sent, Slept(1), Sent>>
    /\ pool.naps = {[by |-> 1, url |-> UrlA, secs |-> 1],
                    [by |-> 1, url |-> UrlA, secs |-> 2],
                    [by |-> 2, url |-> UrlB, secs |-> 1]}

----------------------------------------------------------------------------
(* the positions of a line where a URL starts: a scheme prefix followed by   *)
(* a character that is not whitespace                                        *)
UrlStarts(line) ==
    {i \in 1..Len(line) : line[i] = "S" /\ i < Len(line) /\ ~IsWs(line[i + 1])}

Least(S) == CHOOSE i \in S : \A j \in S : i <= j

(* the leftmost URL of a line that has one: from the first start to the end  *)
(* of the run of non-whitespace characters                                   *)
LeftmostUrl(line) ==
    LET i == Least(UrlStarts(line))
        ends == {j \in i..Len(line) :
                    /\ \A k \in (i + 1)..j : ~IsWs(line[k])
                    /\ (j = Len(line) \/ IsWs(line[j + 1]))}
    IN  SubSeq(line, i, Least(ends))

WithUrl(e) == UrlStarts(e.text) # {}
IsMiss(e) == ~e.hit

(* C22: every line read gives at most one candidate, the leftmost URL of    *)
(* the line, also when the line has several; the candidates come to the     *)
(* cache lookup in the order the lines were read, which is the order of the *)
(* input paths and, in a file, of its lines; the closures are submitted in  *)
(* that order too.                                                          *)
C22_OneCandidatePerLineInOrder ==
    LET withUrl == SelectSeq(lines, WithUrl)
    IN  /\ Len(lines) = nread
        /\ UrlsOfScan(scanned) = [i \in DOMAIN withUrl |-> LeftmostUrl(withUrl[i].text)]
        /\ \A i, j \in DOMAIN lines : i < j => lines[i].file <= lines[j].file
        /\ \A i \in DOMAIN lines : lines[i].file \in 1..nfiles /\ lines[i].file <= fi
        /\ [i \in DOMAIN jobs |-> jobs[i].url] = UrlsOfScan(SelectSeq(scanned, IsMiss))

(* a finished run that read a line with two URLs from the first file and a   *)
(* line with one from the second: two candidates, the first URL of each      *)
C22_Witness ==
    /\ Finished
    /\ lines = <<[file |-> 1, text |-> LineB], [file |-> 2, text |-> LineA]>>
    /\ UrlsOfScan(scanned) = <<UrlB, UrlA>>

----------------------------------------------------------------------------
(* a relative link of one segment ("/" and a name) is listed as a URL of    *)
(* the permalink host                                                       *)
SingleSegmentKept ==
    \A h \in LinkSet :
        (Len(h) = 2 /\ h[1] = "/" /\ h[2] # "/")
            => /\ Outcome(h) = Some(<<"S">> \o TWITTER_HOST \o h)
               /\ IsListed(<<"S">> \o TWITTER_HOST \o h)

(* C23 as stated: a relative link of one segment is resolved against the     *)
(* permalink host and listed in end_url, and a candidate is dropped for its  *)
(* shape only if it is on the permalink host with more than one "/" in its   *)
(* path.                                                                     *)
C23_OnlyDeepPathsAreFiltered ==
    ScrapeRow =>
        /\ SingleSegmentKept
        /\ \A h \in LinkSet :
              (is_some(CandidateUrl(h)) /\ Outcome(h) = None)
                  => LET u == unwrap(CandidateUrl(h))
                     IN  u.host = TWITTER_HOST /\ fwd_slash_cnt(u) > 1

(* C23 amended: a relative link of one segment is resolved against the       *)
(* permalink host and listed in end_url; a candidate that was not replaced   *)
(* by the location of an answered secondary fetch is dropped for its shape   *)
(* only if it is on the permalink host with more than one "/" in its path;   *)
(* a candidate that was replaced is dropped whenever that location is on the *)
(* permalink host and does not end like a status URL, whatever its path.     *)
C23_OnlyDeepUnresolvedAreFiltered ==
    ScrapeRow =>
        /\ SingleSegmentKept
        /\ \A h \in LinkSet \ Answered :
              (is_some(CandidateUrl(h)) /\ Outcome(h) = None)
                  => LET u == unwrap(CandidateUrl(h))
                     IN  u.host = TWITTER_HOST /\ fwd_slash_cnt(u) > 1
        /\ \A h \in LinkSet \cap Answered :
              LET u == unwrap(CandidateUrl(h))
              IN  (Outcome(h) = None)
                     <=> (u.host = TWITTER_HOST
                            /\ ~TWITTER_STATUS_RE_is_match(as_str(u)))

(* a row whose document linked a profile by a relative href and a shortener  *)
(* that came to a status: both are listed                                    *)
C23_Witness ==
    /\ ScrapeRow
    /\ scr.page.links = <<HrefMention, HrefShortA>>
    /\ scr.resolve[HrefShortA].loc = LocStatus
    /\ Listed = <<LocProfile, LocStatus>>
    /\ pc = "done"

----------------------------------------------------------------------------
(* the cache as processed_urls() reads it from the file the run found *)
PriorCache == ProcessedUrls(prior)

(* C24: the cache is read from the prior output file before the file is      *)
(* truncated and before any work item is submitted, and is the same from     *)
(* then on: at every point of the run it holds what the prior file held, a   *)
(* line is served from the cache exactly when its URL is in that, with the   *)
(* prior file's data, and a URL fetched earlier in the run is submitted      *)
(* again when a later line has it.                                           *)
C24_CacheReadOnceBeforeWrite ==
    /\ pc = "idle" => (jobs = <<>> /\ scanned = <<>> /\ processed_urls = EmptyMap)
    /\ pc # "idle"
          => /\ processed_urls = PriorCache
             /\ \A i \in DOMAIN scanned :
                   scanned[i].hit <=> scanned[i].url \in DOMAIN PriorCache
             /\ \A i \in DOMAIN outFile.rows :
                   IsCacheRow(outFile.rows[i])
                      => LET u == outFile.rows[i].rec.url
                         IN  /\ u \in DOMAIN PriorCache
                             /\ outFile.rows[i].rec
                                   = Serialize(CachedRow(u, PriorCache[u]))
             /\ Len(jobs) = Len(SelectSeq(scanned, IsMiss))

(* a scan that comes to a second line with a URL that is not in the cache    *)
(* and that the first work item has already fetched: a second work item      *)
C24_Witness ==
    /\ pc = "scan"
    /\ prior.rows # <<>>
    /\ Len(jobs) = 2
    /\ jobs[1].url = jobs[2].url
    /\ jobs[1].st = "done" /\ jobs[1].fetch = "ok"
    /\ jobs[2].st = "queued"
    /\ processed_urls # EmptyMap

----------------------------------------------------------------------------
FetchRows == SelectSeq(outFile.rows, IsFetchRow)

(* the file at output_path is the one this run has opened for writing *)
WriterOpen == pc # "idle" /\ result # "Err"

(* C25: in the output file of a run every row served from the cache comes    *)
(* before every computed row, and a computed row is in the file only when    *)
(* the scan has gone through every input path and every submitted work item  *)
(* has completed.                                                            *)
C25_CacheRowsBeforeComputedRows ==
    WriterOpen =>
        /\ \A i, j \in DOMAIN outFile.rows :
              (IsCacheRow(outFile.rows[i]) /\ IsFetchRow(outFile.rows[j])) => i < j
        /\ FetchRows # <<>>
              => /\ pc \in {"drain", "done"}
                 /\ fi = nfiles + 1
                 /\ ~reading
                 /\ \A k \in DOMAIN jobs : jobs[k].st = "done"
                 /\ work_queue = Len(jobs)
        /\ pc \in {"scan", "join"} => FetchRows = <<>>

(* a finished run whose first line was a miss and whose second line was a    *)
(* hit: the cached row is first in the file, the computed row second         *)
C25_Witness ==
    /\ Finished
    /\ Len(scanned) = 2
    /\ ~scanned[1].hit /\ scanned[2].hit
    /\ Len(outFile.rows) = 2
    /\ IsCacheRow(outFile.rows[1]) /\ outFile.rows[1].rec.url = scanned[2].url
    /\ IsFetchRow(outFile.rows[2]) /\ outFile.rows[2].rec.url = scanned[1].url

----------------------------------------------------------------------------
(* the URLs of the rows of the prior file that the input of this run did not *)
(* have                                                                      *)
PriorUrlsNotInInput ==
    {PriorRecs[i].url : i \in DOMAIN PriorRecs} \ ScannedUrls

(* C26: after a run, every row of the output is for a URL matched in the     *)
(* input of the run; a row of the prior file, with a title or without, for   *)
(* a URL that the input does not have is not in the new output, and the      *)
(* cache a later run reads from the output does not have that URL.           *)
C26_OutputOnlyForCurrentInput ==
    Finished =>
        /\ \A i \in DOMAIN OutRecs : OutRecs[i].url \in ScannedUrls
        /\ \A u \in PriorUrlsNotInInput :
              /\ \A i \in DOMAIN OutRecs : OutRecs[i].url # u
              /\ u \notin DOMAIN ProcessedUrls(outFile)

(* a finished run over a prior file with a titled row for a URL that was not *)
(* in the input, and an untitled row for the URL that was                    *)
C26_Witness ==
    /\ Finished
    /\ ScannedUrls = {UrlB}
    /\ UrlA \in DOMAIN processed_urls
    /\ UrlA \in PriorUrlsNotInInput
    /\ OutRecs # <<>>
    /\ UrlA \notin DOMAIN ProcessedUrls(outFile)

====
